---- MODULE Spec2Model ----
(***************************************************************************)
(* Nutrition unit conversion and meal aggregation of juula-admin.          *)
(*                                                                         *)
(*   calculateNutritionForServing   src/shared/schema.ts                   *)
(*   calculateBaseNutrition         src/client/src/components/             *)
(*   MealFormModal                  meal-form-modal.tsx                    *)
(*                                                                         *)
(* Numbers.  A JavaScript value is a tagged record: Num(n), Undefined or   *)
(* Null.  Amounts the user enters per 100 g / 100 ml (nutritionPer100) are *)
(* carried in TENTHS (43 is 4.3 g).  Serving sizes, conversion factors,    *)
(* base portions and gramsOrMl are whole numbers.  Amounts the functions   *)
(* RETURN are carried in HUNDREDTHS (650 is 6.5 g, 30800 is 308 kcal), so  *)
(* that "a whole number" and "one decimal place" are properties a result   *)
(* can fail to have.  Products and quotients are exact; IEEE doubles can   *)
(* differ from them only where a product lies exactly halfway between two  *)
(* roundings.                                                              *)
(*                                                                         *)
(* Foods.  A food is a record as the Firestore loaders build it: its       *)
(* customConversions is undefined or an object whose keys are the units    *)
(* with a stored number (Firestore stores no undefined property), and its  *)
(* nutritionPer100 holds a number for calories and for the optional        *)
(* nutrients that were entered.                                            *)
(***************************************************************************)
EXTENDS Integers, Sequences, FiniteSets, TLC

VARIABLES
    food,          \* argument food of the last calculateNutritionForServing call
    servingSize,   \* argument servingSize of that call
    servingUnit,   \* argument servingUnit of that call
    gramsOrMl,     \* the local gramsOrMl at the end of that call
    serving,       \* what that call returned (NotCalled before the first call)
    foods,         \* meal form: the foods snapshot of the useQuery
    mealFoods,     \* meal form: the composed (foodId, basePortion) list
    baseNutrition, \* what the last calculateBaseNutrition call returned
    contributions, \* the locals calories, protein, carbs, fat of each forEach round of that call
    isOpen,        \* meal form: prop isOpen
    meal,          \* meal form: prop meal (Null for a new meal)
    mealFoodsRef,  \* which array mealFoods is: meal.foods of the meal object with that ref,
                   \* or "new" for an array the component built
    selectedFoodId, \* meal form: state selectedFoodId ("" when none)
    formValues,    \* the form's baseCalories, baseProtein, baseCarbs, baseFat
    submitted,     \* the argument of the onSubmit call handleSubmit is making
                   \* (NotCalled outside that call)
    selectedMealTypes, \* meal form: state selectedMealTypes
    editingPortions,   \* meal form: state editingPortions, row index -> text
    editingStartedOn,  \* history: row index -> the entry startEditingPortions was called on
    heap,          \* the food objects a caller of the two functions holds
    callLog,       \* the calls made so far: function, arguments, result
    memFoods,      \* MemStorage: the Map foods, id -> food
    memMeals,      \* MemStorage: the Map meals, id -> meal
    currentFoodId, \* MemStorage: currentFoodId
    currentMealId, \* MemStorage: currentMealId
    memResult,     \* how the last MemStorage call ended: it returned, or the error it
                   \* threw (NotCalled before the first call)
    memIssued,     \* history: the ids createFood and createMeal returned, in order
    now,           \* the clock new Date() reads
    foodDocs,      \* Firestore: collection foods, document id -> data
    mealDocs,      \* Firestore: collection meals, document id -> data
    issuedDocs,    \* Firestore: how many document ids addDoc has generated
    loadedFoods,   \* foods manager: the query cache the listener fills
    selectedFoods, \* foods manager: state selectedFoods
    currentPage,   \* foods manager: state currentPage
    pageSize,      \* foods manager: state pageSize
    searchTerm,    \* foods manager: state searchTerm
    editingFood,   \* foods manager: state editingFood
    deletingFood,  \* foods manager: state deletingFood
    isAddModalOpen, \* foods manager: state isAddModalOpen
    lastMutation   \* foods manager: the mutation run last and its status

vars == <<food, servingSize, servingUnit, gramsOrMl, serving,
          foods, mealFoods, baseNutrition, contributions,
          isOpen, meal, mealFoodsRef, selectedFoodId, formValues, submitted,
          selectedMealTypes, editingPortions, editingStartedOn, heap, callLog,
          memFoods, memMeals, currentFoodId, currentMealId, memResult, memIssued,
          now, foodDocs, mealDocs, issuedDocs,
          loadedFoods, selectedFoods, currentPage, pageSize, searchTerm,
          editingFood, deletingFood, isAddModalOpen, lastMutation>>

formVars == <<isOpen, meal, mealFoodsRef, selectedFoodId, formValues, submitted>>
dialogVars == <<selectedMealTypes, editingPortions, editingStartedOn>>
callVars == <<heap, callLog>>

\* what the dialog's handlers leave alone besides the three groups above
storageVars == <<memFoods, memMeals, currentFoodId, currentMealId, memResult, memIssued>>
firestoreVars == <<foodDocs, mealDocs, issuedDocs>>
managerVars == <<loadedFoods, selectedFoods, currentPage, pageSize, searchTerm,
                 editingFood, deletingFood, isAddModalOpen, lastMutation>>
recordVars == <<storageVars, now, firestoreVars, managerVars>>
adminVars == <<callVars, recordVars>>

\* what the two functions leave alone besides the three groups above
laterVars == <<dialogVars, adminVars>>

servingVars == <<food, servingSize, servingUnit, gramsOrMl, serving>>
mealVars == <<foods, mealFoods, baseNutrition, contributions>>

----------------------------------------------------------------------------
(* JavaScript values *)

Num(n) == [t |-> "number", v |-> n]
Undefined == [t |-> "undefined"]
Null == [t |-> "null"]
Str(s) == [t |-> "string", v |-> s]
Obj(f) == [t |-> "object", v |-> f]
NotCalled == [t |-> "notcalled"]

Arr(s) == [t |-> "array", v |-> s]
NaN == [t |-> "nan"]
IsNum(x) == x.t = "number"

\* `x ? a : b` and `x || d`: undefined, null, 0 and "" are falsy
Truthy(x) ==
    CASE x.t = "number" -> x.v # 0
      [] x.t = "string" -> x.v # <<>>
      [] x.t = "object" -> TRUE
      [] x.t = "array" -> TRUE
      [] OTHER -> FALSE

\* Math.trunc in the place of Math.round
MathTrunc(num, den) == num \div den

\* Math.round(num / den) for den > 0: the nearest integer, halves towards +infinity
MathRound(num, den) == (2 * num + den) \div (2 * den)

\* reading obj[k] of an object modelled as a function: a missing key is undefined
Get(obj, k) == IF k \in DOMAIN obj THEN obj[k] ELSE Undefined

\* object spread {...a, ...b}: every own key of b, null values included, replaces a's
Spread(a, b) == [k \in (DOMAIN a) \cup (DOMAIN b) |-> IF k \in DOMAIN b THEN b[k] ELSE a[k]]

EmptyObject == [k \in {} |-> Undefined]

----------------------------------------------------------------------------
(* Strings are sequences of characters *)

UpperChars == <<"A","B","C","D","E","F","G","H","I","J","K","L","M",
                "N","O","P","Q","R","S","T","U","V","W","X","Y","Z">>
LowerChars == <<"a","b","c","d","e","f","g","h","i","j","k","l","m",
                "n","o","p","q","r","s","t","u","v","w","x","y","z">>

toLowerCaseChar(c) ==
    IF \E i \in DOMAIN UpperChars : UpperChars[i] = c
    THEN LowerChars[CHOOSE i \in DOMAIN UpperChars : UpperChars[i] = c]
    ELSE c

toLowerCase(s) == [i \in 1..Len(s) |-> toLowerCaseChar(s[i])]

\* String.prototype.includes
includes(s, key) ==
    \E i \in 0..(Len(s) - Len(key)) : SubSeq(s, i + 1, i + Len(key)) = key

----------------------------------------------------------------------------
(* shared/schema.ts: tables *)

ExactUnits == {"ml", "l", "g"}
FuzzyUnits == {"cup", "tbsp", "tsp", "plate", "fist", "piece"}
\* z.enum of availableUnits, schema.ts:22
UnitTokens == ExactUnits \cup FuzzyUnits

\* the optional nutrients of foodSchema.nutritionPer100
OptionalNutrients == {"protein", "carbs", "fat", "fiber", "sugar", "sodium",
                      "calcium", "potassium", "vitaminB12", "vitaminA", "vitaminE",
                      "vitaminD", "vitaminC", "iron", "magnesium"}
\* the optional nutrients calculateNutritionForServing returns
ServedNutrients == {"protein", "carbs", "fat", "fiber", "sugar", "sodium"}

\* foodSpecificConversions in insertion order (the order of Object.entries)
foodSpecificConversions == <<
    [key |-> <<"r","i","c","e">>, cup |-> Num(185), plate |-> Num(200), piece |-> Null],
    [key |-> <<"p","a","s","t","a">>, cup |-> Num(220), plate |-> Num(180), piece |-> Null],
    [key |-> <<"o","a","t","m","e","a","l">>, cup |-> Num(240), plate |-> Num(200), piece |-> Null],
    [key |-> <<"q","u","i","n","o","a">>, cup |-> Num(170), plate |-> Num(150), piece |-> Null],
    [key |-> <<"b","r","e","a","d">>, cup |-> Null, plate |-> Null, piece |-> Num(25)],
    [key |-> <<"a","p","p","l","e">>, cup |-> Num(125), plate |-> Null, piece |-> Num(180)],
    [key |-> <<"b","a","n","a","n","a">>, cup |-> Num(150), plate |-> Null, piece |-> Num(120)],
    [key |-> <<"o","r","a","n","g","e">>, cup |-> Num(180), plate |-> Null, piece |-> Num(150)],
    [key |-> <<"g","r","a","p","e","s">>, cup |-> Num(150), plate |-> Num(200), piece |-> Num(5)],
    [key |-> <<"s","t","r","a","w","b","e","r","r","y">>, cup |-> Num(150), plate |-> Num(200), piece |-> Num(15)],
    [key |-> <<"b","l","u","e","b","e","r","r","y">>, cup |-> Num(150), plate |-> Num(200), piece |-> Num(1)],
    [key |-> <<"b","r","o","c","c","o","l","i">>, cup |-> Num(90), plate |-> Num(150), piece |-> Num(25)],
    [key |-> <<"p","o","t","a","t","o">>, cup |-> Num(150), plate |-> Num(200), piece |-> Num(200)],
    [key |-> <<"c","a","r","r","o","t">>, cup |-> Num(130), plate |-> Num(150), piece |-> Num(60)],
    [key |-> <<"t","o","m","a","t","o">>, cup |-> Num(180), plate |-> Num(200), piece |-> Num(120)],
    [key |-> <<"o","n","i","o","n">>, cup |-> Num(160), plate |-> Num(180), piece |-> Num(100)],
    [key |-> <<"c","u","c","u","m","b","e","r">>, cup |-> Num(120), plate |-> Num(150), piece |-> Num(300)],
    [key |-> <<"c","h","i","c","k","e","n">>, cup |-> Null, plate |-> Num(200), piece |-> Num(150)],
    [key |-> <<"b","e","e","f">>, cup |-> Null, plate |-> Num(200), piece |-> Num(100)],
    [key |-> <<"f","i","s","h">>, cup |-> Null, plate |-> Num(180), piece |-> Num(120)],
    [key |-> <<"e","g","g">>, cup |-> Null, plate |-> Null, piece |-> Num(50)],
    [key |-> <<"t","o","f","u">>, cup |-> Num(250), plate |-> Num(200), piece |-> Num(85)],
    [key |-> <<"c","h","e","e","s","e">>, cup |-> Num(115), plate |-> Null, piece |-> Num(30)],
    [key |-> <<"y","o","g","u","r","t">>, cup |-> Num(245), plate |-> Null, piece |-> Null],
    [key |-> <<"a","l","m","o","n","d">>, cup |-> Num(140), plate |-> Null, piece |-> Num(1)],
    [key |-> <<"w","a","l","n","u","t">>, cup |-> Num(120), plate |-> Null, piece |-> Num(3)],
    [key |-> <<"p","e","a","n","u","t">>, cup |-> Num(150), plate |-> Null, piece |-> Num(1)]
>>

\* foodSpecificConversions[key]: the {cup, plate, piece} object stored under key
foodSpecificEntry(key) ==
    LET e == foodSpecificConversions[CHOOSE i \in DOMAIN foodSpecificConversions :
                                         foodSpecificConversions[i].key = key]
    IN  [u \in {"cup", "plate", "piece"} |-> e[u]]

\* detectFoodType keeping the last key that matches
detectFoodTypeLastMatch(foodName) ==
    LET name == toLowerCase(foodName)
        hits == {i \in DOMAIN foodSpecificConversions :
                     includes(name, foodSpecificConversions[i].key)}
    IN  IF hits = {} THEN Null
        ELSE Str(foodSpecificConversions[CHOOSE i \in hits : \A j \in hits : i >= j].key)

\* detectFoodType: the first key, in table order, the lowercased name includes
detectFoodType(foodName) ==
    LET name == toLowerCase(foodName)
        hits == {i \in DOMAIN foodSpecificConversions :
                     includes(name, foodSpecificConversions[i].key)}
    IN  IF hits = {} THEN Null
        ELSE Str(foodSpecificConversions[CHOOSE i \in hits : \A j \in hits : i <= j].key)

----------------------------------------------------------------------------
(* shared/schema.ts: calculateNutritionForServing *)

\* const baseAmount = food.foodType === "solid" ? 100 : 100
baseAmount(f) == IF f.foodType = "solid" THEN 100 ELSE 100

\* defaultConversions with a litre of 100 ml
defaultConversionsShortLitre(f) ==
    [u \in UnitTokens |->
        CASE u = "l" -> Num(100)
          [] u \in {"ml", "g"} -> Num(1)
          [] u = "cup" -> IF f.foodType = "liquid" THEN Num(240) ELSE Num(200)
          [] u = "tbsp" -> IF f.foodType = "liquid" THEN Num(15) ELSE Num(12)
          [] u = "tsp" -> IF f.foodType = "liquid" THEN Num(5) ELSE Num(4)
          [] u = "plate" -> Num(200)
          [] u = "fist" -> Num(80)
          [] u = "piece" -> Num(50)]

\* defaultConversions with one cup, tbsp and tsp for both food types
defaultConversionsUntyped(f) ==
    [u \in UnitTokens |->
        CASE u = "l" -> Num(1000)
          [] u \in {"ml", "g"} -> Num(1)
          [] u = "cup" -> Num(240)
          [] u = "tbsp" -> Num(15)
          [] u = "tsp" -> Num(5)
          [] u = "plate" -> Num(200)
          [] u = "fist" -> Num(80)
          [] u = "piece" -> Num(50)]

\* the defaultConversions object literal
defaultConversions(f) ==
    [u \in UnitTokens |->
        CASE u = "l" -> Num(1000)
          [] u = "ml" -> Num(1)
          [] u = "cup" -> IF f.foodType = "liquid" THEN Num(240) ELSE Num(200)
          [] u = "tbsp" -> IF f.foodType = "liquid" THEN Num(15) ELSE Num(12)
          [] u = "tsp" -> IF f.foodType = "liquid" THEN Num(5) ELSE Num(4)
          [] u = "g" -> Num(1)
          [] u = "plate" -> Num(200)
          [] u = "fist" -> Num(80)
          [] u = "piece" -> Num(50)]

\* foodSpecific without the keyword table
foodSpecificNone(f) == EmptyObject

\* const foodSpecific = foodType ? (foodSpecificConversions[foodType] || {}) : {}
foodSpecific(f) ==
    LET foodType == detectFoodType(f.name)
    IN  IF Truthy(foodType) THEN foodSpecificEntry(foodType.v) ELSE EmptyObject

\* food.customConversions || {}
customOrEmpty(f) ==
    IF Truthy(f.customConversions) THEN f.customConversions.v ELSE EmptyObject

\* conversions with the keyword table spread after the food's own overrides
conversionsKeywordOverCustom(f) ==
    Spread(Spread(defaultConversions(f), customOrEmpty(f)), foodSpecific(f))

\* conversions with the defaults spread after the keyword table
conversionsDefaultOverKeyword(f) ==
    Spread(Spread(foodSpecific(f), defaultConversions(f)), customOrEmpty(f))

\* const conversions = {...defaultConversions, ...foodSpecific, ...(food.customConversions || {})}
conversions(f) ==
    Spread(Spread(defaultConversions(f), foodSpecific(f)), customOrEmpty(f))

\* const conversionValue = conversions[servingUnit]
conversionValue(f, unit) == Get(conversions(f), unit)

\* let gramsOrMl = servingSize; if (conversionValue !== undefined && conversionValue !== null) ...
resolveGramsOrMl(f, size, unit) ==
    LET cv == conversionValue(f, unit)
    IN  IF cv # Undefined /\ cv # Null THEN size * cv.v ELSE size

\* calories rounded to one decimal place like the other nutrients
scaledCaloriesOneDecimal(calories, g, base) ==
    Num(10 * MathRound(calories.v * g, base))

\* Math.round(food.nutritionPer100.calories * ratio); calories in tenths, ratio = g / base
scaledCalories(calories, g, base) ==
    Num(100 * MathRound(calories.v * g, 10 * base))

\* scaledOptional written as Math.round(((x || 0) * ratio) * 10) / 10
scaledOptionalCoerced(x, g, base) ==
    Num(10 * MathRound((IF Truthy(x) THEN x.v ELSE 0) * g, base))

\* x ? Math.round((x * ratio) * 10) / 10 : undefined; x in tenths, ratio = g / base
scaledOptional(x, g, base) ==
    IF Truthy(x) THEN Num(10 * MathRound(x.v * g, base)) ELSE Undefined

\* the object literal calculateNutritionForServing returns
calculateNutritionForServing(f, size, unit) ==
    LET g == resolveGramsOrMl(f, size, unit)
        base == baseAmount(f)
        n == f.nutritionPer100
    IN  [k \in {"calories"} \cup ServedNutrients |->
            IF k = "calories" THEN scaledCalories(n["calories"], g, base)
            ELSE scaledOptional(Get(n, k), g, base)]

----------------------------------------------------------------------------
(* meal-form-modal.tsx: the foods snapshot and calculateBaseNutrition *)

AllNutrients == {"calories"} \cup OptionalNutrients

\* queryFn of the "/api/foods-all" useQuery: the Food built from one Firestore document
foodFromDoc(doc) ==
    [id |-> doc.id,
     name |-> doc.name,
     foodType |-> doc.foodType,
     nutritionPer100 |->
        IF Truthy(doc.nutritionPer100)
        THEN [k \in AllNutrients |->
                LET x == Get(doc.nutritionPer100.v, k)
                IN  IF k = "calories"
                    THEN (IF Truthy(x) THEN x ELSE Num(0))
                    ELSE (IF Truthy(x) THEN x ELSE Undefined)]
        ELSE [k \in {"calories"} |-> Num(0)],
     customConversions |-> doc.customConversions]

\* snapshot.docs.map(...)
foodsFromDocs(docs) == [i \in 1..Len(docs) |-> foodFromDoc(docs[i])]

\* foods.find(f => f.id === foodId)
findFood(fs, foodId) ==
    LET hits == {i \in 1..Len(fs) : fs[i].id = foodId}
    IN  IF hits = {} THEN Undefined
        ELSE Obj(fs[CHOOSE i \in hits : \A j \in hits : i <= j])

\* contribution that forgets the base portion and takes the per-100 amount as it is
contributionPerHundred(fs, mealFood, field) ==
    LET found == findFood(fs, mealFood.foodId)
    IN  IF Truthy(found) /\ "nutritionPer100" \in DOMAIN found.v
        THEN LET x == Get(found.v.nutritionPer100, field)
             IN  (IF Truthy(x) THEN x.v ELSE 0) * 100
        ELSE 0

\* contribution rounded to one decimal place food by food
contributionRounded(fs, mealFood, field) ==
    LET found == findFood(fs, mealFood.foodId)
    IN  IF Truthy(found) /\ "nutritionPer100" \in DOMAIN found.v
        THEN LET x == Get(found.v.nutritionPer100, field)
             IN  100 * MathRound((IF Truthy(x) THEN x.v ELSE 0) * mealFood.basePortion.v, 100)
        ELSE 0

\* (food.nutritionPer100.<field> || 0) * mealFood.basePortion, in tenths of a unit per 100
\* (the division by 100 is carried by the caller); 0 when the food is not found
contribution(fs, mealFood, field) ==
    LET found == findFood(fs, mealFood.foodId)
    IN  IF Truthy(found) /\ "nutritionPer100" \in DOMAIN found.v
        THEN LET x == Get(found.v.nutritionPer100, field)
             IN  (IF Truthy(x) THEN x.v ELSE 0) * mealFood.basePortion.v
        ELSE 0

\* the locals of the forEach rounds, times 1000; a round whose food is not found
\* computes nothing (found is FALSE and the amounts read 0)
perFoodContributions(mfs, fs) ==
    [i \in 1..Len(mfs) |->
        [found |-> Truthy(findFood(fs, mfs[i].foodId)),
         calories |-> contribution(fs, mfs[i], "calories"),
         protein |-> contribution(fs, mfs[i], "protein"),
         carbs |-> contribution(fs, mfs[i], "carbs"),
         fat |-> contribution(fs, mfs[i], "fat")]]

\* total that stops at the first entry whose food is not found
RECURSIVE totalUntilMissing(_, _, _)
totalUntilMissing(fs, mfs, field) ==
    IF mfs = <<>> THEN 0
    ELSE IF findFood(fs, Head(mfs).foodId) = Undefined THEN 0
    ELSE contribution(fs, Head(mfs), field) + totalUntilMissing(fs, Tail(mfs), field)

\* the running total after mealFoods.forEach, times 1000
RECURSIVE total(_, _, _)
total(fs, mfs, field) ==
    IF mfs = <<>> THEN 0
    ELSE total(fs, SubSeq(mfs, 1, Len(mfs) - 1), field) + contribution(fs, mfs[Len(mfs)], field)

\* Math.round(total * 10) / 10
roundedTotal(sum) == Num(10 * MathRound(sum, 100))

\* the object literal calculateBaseNutrition returns
calculateBaseNutrition(mfs, fs) ==
    [calories |-> roundedTotal(total(fs, mfs, "calories")),
     protein |-> roundedTotal(total(fs, mfs, "protein")),
     carbs |-> roundedTotal(total(fs, mfs, "carbs")),
     fat |-> roundedTotal(total(fs, mfs, "fat"))]

----------------------------------------------------------------------------
(* Inputs *)

MaxServingSize == 3
MaxMealFoods == 3

FoodNames == {
    <<"R","i","c","e">>,
    <<"W","h","i","t","e"," ","B","r","e","a","d">>,
    <<"C","h","i","c","k","e","n"," ","a","n","d"," ","r","i","c","e">>,
    <<"M","i","l","k">>,
    <<"Y","o","g","u","r","t">>,
    <<"E","g","g","p","l","a","n","t">> }

\* nutritionPer100 records, amounts in tenths
RiceNutrition ==
    [calories |-> Num(2050), protein |-> Num(43), carbs |-> Num(450), fat |-> Num(4)]
ZeroFieldsNutrition ==
    [calories |-> Num(1000), protein |-> Num(0), fat |-> Num(35), fiber |-> Num(12),
     sugar |-> Num(0), sodium |-> Num(5), calcium |-> Num(1200), iron |-> Num(8),
     vitaminC |-> Num(46)]
CaloriesOnlyNutrition == [calories |-> Num(0)]
FullNutrition ==
    [calories |-> Num(520), protein |-> Num(3), carbs |-> Num(140), fat |-> Num(2),
     fiber |-> Num(24), sugar |-> Num(100), sodium |-> Num(10), calcium |-> Num(60),
     potassium |-> Num(1070), vitaminB12 |-> Num(1), vitaminA |-> Num(30),
     vitaminE |-> Num(2), vitaminD |-> Num(1), vitaminC |-> Num(46), iron |-> Num(1),
     magnesium |-> Num(50)]

NutritionRecords == {RiceNutrition, ZeroFieldsNutrition, CaloriesOnlyNutrition, FullNutrition}

CustomConversionChoices == {
    Undefined,
    Obj(EmptyObject),
    Obj([cup |-> Num(180)]),
    Obj([piece |-> Num(60), tbsp |-> Num(14)]),
    Obj([cup |-> Num(250), plate |-> Num(300), fist |-> Num(100), piece |-> Num(30),
         tbsp |-> Num(10), tsp |-> Num(3)]) }

ServingFoods ==
    [name : FoodNames, foodType : {"solid", "liquid"},
     nutritionPer100 : NutritionRecords, customConversions : CustomConversionChoices]

ServingSizes == ((0 - 2)..MaxServingSize) \cup {150}
ServingUnits == UnitTokens \cup {"oz"}

\* Firestore documents of the foods collection
DocRice == [id |-> "f1", name |-> <<"R","i","c","e">>, foodType |-> "solid",
            nutritionPer100 |-> Obj(RiceNutrition), customConversions |-> Undefined]
DocZero == [id |-> "f2", name |-> <<"M","i","l","k">>, foodType |-> "liquid",
            nutritionPer100 |-> Obj(ZeroFieldsNutrition), customConversions |-> Undefined]
DocFull == [id |-> "f3", name |-> <<"Y","o","g","u","r","t">>, foodType |-> "solid",
            nutritionPer100 |-> Obj(FullNutrition), customConversions |-> Undefined]
DocBare == [id |-> "f3", name |-> <<"E","g","g","p","l","a","n","t">>, foodType |-> "solid",
            nutritionPer100 |-> Undefined, customConversions |-> Undefined]

FoodCollections == {<<>>, <<DocRice, DocZero>>, <<DocRice, DocZero, DocFull>>,
                    <<DocRice, DocZero, DocBare>>}
FoodIds == {"f1", "f2", "f3"}
BasePortions == {100, 50, 33}

MealFoodEntries ==
    [foodId : FoodIds, basePortion : {Num(p) : p \in BasePortions},
     role : {"protein_primary"}, allowedPortions : {Undefined}]

RECURSIVE SeqsUpTo(_, _)
SeqsUpTo(S, n) ==
    IF n = 0 THEN {<<>>}
    ELSE LET shorter == SeqsUpTo(S, n - 1)
         IN  shorter \cup {Append(q, e) : q \in shorter, e \in S}

\* useForm defaultValues: the four base fields start at 0
defaultValues ==
    [calories |-> Num(0), protein |-> Num(0), carbs |-> Num(0), fat |-> Num(0)]

\* the state of the useState and useForm hooks before the dialog is used
FormNotMounted ==
    /\ isOpen = FALSE
    /\ meal = Null
    /\ mealFoodsRef = "new"
    /\ selectedFoodId = ""
    /\ formValues = defaultValues
    /\ submitted = NotCalled
    /\ selectedMealTypes = <<>>
    /\ editingPortions = <<>>
    /\ editingStartedOn = <<>>

\* no caller of the two functions is modelled
CallsIdle ==
    /\ heap = <<>>
    /\ callLog = {}

\* new MemStorage()
StorageConstructed ==
    /\ memFoods = <<>>
    /\ memMeals = <<>>
    /\ currentFoodId = 1
    /\ currentMealId = 1
    /\ memResult = NotCalled
    /\ memIssued = <<>>

\* the two collections hold no document
FirestoreEmpty ==
    /\ foodDocs = <<>>
    /\ mealDocs = <<>>
    /\ issuedDocs = 0

\* the useState initial values of FoodsManager, before the listener delivered
ManagerMounted ==
    /\ loadedFoods = <<>>
    /\ selectedFoods = {}
    /\ currentPage = 1
    /\ pageSize = 10
    /\ searchTerm = <<>>
    /\ editingFood = Null
    /\ deletingFood = Null
    /\ isAddModalOpen = FALSE
    /\ lastMutation = NotCalled

RecordsIdle ==
    /\ StorageConstructed
    /\ now = 0
    /\ FirestoreEmpty
    /\ ManagerMounted

OthersIdle == CallsIdle /\ RecordsIdle

----------------------------------------------------------------------------
(* Specification of calculateNutritionForServing: any food, size and unit *)

ServingInit ==
    /\ food \in ServingFoods
    /\ servingSize \in ServingSizes
    /\ servingUnit \in ServingUnits
    /\ gramsOrMl = 0
    /\ serving = NotCalled
    /\ foods = <<>>
    /\ mealFoods = <<>>
    /\ baseNutrition = NotCalled
    /\ contributions = <<>>
    /\ FormNotMounted
    /\ OthersIdle

CallCalculateNutritionForServing ==
    /\ gramsOrMl' = resolveGramsOrMl(food, servingSize, servingUnit)
    /\ serving' = calculateNutritionForServing(food, servingSize, servingUnit)
    /\ UNCHANGED <<food, servingSize, servingUnit>>
    /\ UNCHANGED mealVars
    /\ UNCHANGED formVars
    /\ UNCHANGED laterVars

ServingNext == CallCalculateNutritionForServing

ServingSpec == ServingInit /\ [][ServingNext]_vars

----------------------------------------------------------------------------
(* Specification of calculateBaseNutrition: any snapshot and any composed list *)

MealInit ==
    /\ foods \in {foodsFromDocs(docs) : docs \in FoodCollections}
    /\ mealFoods \in SeqsUpTo(MealFoodEntries, MaxMealFoods)
    /\ baseNutrition = NotCalled
    /\ contributions = <<>>
    /\ FormNotMounted
    /\ OthersIdle
    /\ food = [name |-> <<>>, foodType |-> "solid",
               nutritionPer100 |-> CaloriesOnlyNutrition, customConversions |-> Undefined]
    /\ servingSize = 0
    /\ servingUnit = "g"
    /\ gramsOrMl = 0
    /\ serving = NotCalled

CallCalculateBaseNutrition ==
    /\ baseNutrition' = calculateBaseNutrition(mealFoods, foods)
    /\ contributions' = perFoodContributions(mealFoods, foods)
    /\ UNCHANGED <<foods, mealFoods>>
    /\ UNCHANGED servingVars
    /\ UNCHANGED formVars
    /\ UNCHANGED laterVars

MealNext == CallCalculateBaseNutrition

MealSpec == MealInit /\ [][MealNext]_vars

----------------------------------------------------------------------------
(* meal-form-modal.tsx: the dialog, its effects and its handlers.  React runs one
   handler or effect at a time, so none runs inside the onSubmit call. *)

MaxFormFoods == 2

Entry(foodId, portion) ==
    [foodId |-> foodId, basePortion |-> Num(portion),
     role |-> "protein_primary", allowedPortions |-> Undefined]

\* a meal document as this form saved it while the snapshot held the three foods
SavedMeal(ref, mfs) ==
    LET n == calculateBaseNutrition(mfs, foodsFromDocs(<<DocRice, DocZero, DocFull>>))
    IN  [ref |-> ref, foods |-> mfs,
         baseCalories |-> n.calories, baseProtein |-> n.protein,
         baseCarbs |-> n.carbs, baseFat |-> n.fat,
         mealType |-> <<"breakfast">>]

Meals == {SavedMeal("m1", <<Entry("f1", 100), Entry("f2", 50)>>),
          SavedMeal("m2", <<Entry("f3", 100)>>)}

\* what the user types into the portion input
PortionTexts == {<<"1", "0", "0">>, <<"3", "3">>}

Digits == <<"0", "1", "2", "3", "4", "5", "6", "7", "8", "9">>

IsDigit(c) == \E d \in 1..10 : Digits[d] = c

\* the value of a string of decimal digits
RECURSIVE parseDigits(_, _)
parseDigits(text, acc) ==
    IF text = <<>> THEN acc
    ELSE parseDigits(Tail(text),
                     10 * acc + (CHOOSE d \in 0..9 : Digits[d + 1] = Head(text)))

\* String.prototype.trim over the blank
RECURSIVE trimStart(_)
trimStart(text) ==
    IF text # <<>> /\ Head(text) = " " THEN trimStart(Tail(text)) ELSE text

RECURSIVE trimEnd(_)
trimEnd(text) ==
    IF text # <<>> /\ text[Len(text)] = " "
    THEN trimEnd(SubSeq(text, 1, Len(text) - 1)) ELSE text

trim(text) == trimEnd(trimStart(text))

\* the longest prefix of decimal digits
RECURSIVE digitPrefix(_)
digitPrefix(text) ==
    IF text # <<>> /\ IsDigit(Head(text))
    THEN <<Head(text)>> \o digitPrefix(Tail(text)) ELSE <<>>

\* parseFloat over texts of digits, "-", ",", blanks and letters: leading blanks are
\* skipped, a "-" is taken, the digits that follow are the value and what comes after
\* them is ignored; NaN without a digit
parseFloat(text) ==
    LET t == trimStart(text)
        negative == t # <<>> /\ Head(t) = "-"
        ds == digitPrefix(IF negative THEN Tail(t) ELSE t)
    IN  IF ds = <<>> THEN NaN
        ELSE Num((IF negative THEN 0 - 1 ELSE 1) * parseDigits(ds, 0))

\* text.split(',')
RECURSIVE split(_)
split(text) ==
    IF \A i \in 1..Len(text) : text[i] # "," THEN <<text>>
    ELSE LET k == CHOOSE i \in 1..Len(text) :
                      text[i] = "," /\ \A j \in 1..(i - 1) : text[j] # ","
         IN  <<SubSeq(text, 1, k - 1)>> \o split(SubSeq(text, k + 1, Len(text)))

\* String(n) of a natural number
RECURSIVE numberToText(_)
numberToText(n) ==
    IF n < 10 THEN <<Digits[n + 1]>>
    ELSE numberToText(n \div 10) \o <<Digits[(n % 10) + 1]>>

\* numbers.join(', ')
RECURSIVE join(_)
join(numbers) ==
    IF numbers = <<>> THEN <<>>
    ELSE IF Len(numbers) = 1 THEN numberToText(numbers[1].v)
    ELSE numberToText(numbers[1].v) \o <<",", " ">> \o join(Tail(numbers))

\* text.split(',').map(p => parseFloat(p.trim())).filter(p => !isNaN(p) && p > 0)
parsePortions(text) ==
    LET parts == split(text)
        parsed == [i \in 1..Len(parts) |-> parseFloat(trim(parts[i]))]
    IN  SelectSeq(parsed, LAMBDA p : p # NaN /\ p.v > 0)

\* allowedPortions.length > 0 ? allowedPortions : undefined
portionsOrUndefined(allowedPortions) ==
    IF Len(allowedPortions) > 0 THEN Arr(allowedPortions) ELSE Undefined

\* meal.baseCalories || 0
storedOrZero(x) == IF Truthy(x) THEN x ELSE Num(0)

\* the base fields of form.reset({...})
resetValues(m) ==
    IF m # Null
    THEN [calories |-> storedOrZero(m.baseCalories), protein |-> storedOrZero(m.baseProtein),
          carbs |-> storedOrZero(m.baseCarbs), fat |-> storedOrZero(m.baseFat)]
    ELSE defaultValues

\* useEffect(() => { if (foods.length > 0) updateNutritionValues() }, [mealFoods, foods]):
\* the base fields of the form after the effect ran
nutritionEffect(mfs, fs, current) ==
    IF Len(fs) > 0 THEN calculateBaseNutrition(mfs, fs) ELSE current

\* the same effect seen from calculateBaseNutrition: called or not
EffectCalls(mfs, fs) ==
    IF Len(fs) > 0
    THEN /\ baseNutrition' = calculateBaseNutrition(mfs, fs)
         /\ contributions' = perFoodContributions(mfs, fs)
    ELSE UNCHANGED <<baseNutrition, contributions>>

\* the parent opens the dialog for meal m: the initialising effect, the form.reset
\* effect and, when mealFoods became another array, the nutrition effect
Open(m) ==
    /\ submitted = NotCalled
    /\ ~isOpen
    /\ isOpen' = TRUE
    /\ meal' = m
    /\ LET mfs == IF m # Null THEN m.foods ELSE <<>>
           changed == m = Null \/ mealFoodsRef # m.ref
       IN  /\ mealFoods' = mfs
           /\ mealFoodsRef' = IF m # Null THEN m.ref ELSE "new"
           /\ formValues' = IF changed THEN nutritionEffect(mfs, foods, resetValues(m))
                            ELSE resetValues(m)
           /\ IF changed THEN EffectCalls(mfs, foods)
              ELSE UNCHANGED <<baseNutrition, contributions>>
    /\ selectedFoodId' = ""
    /\ UNCHANGED <<foods, submitted>>
    /\ UNCHANGED servingVars
    /\ selectedMealTypes' = IF m # Null THEN m.mealType ELSE <<"breakfast">>
    /\ editingPortions' = <<>>
    /\ editingStartedOn' = <<>>
    /\ UNCHANGED adminVars

\* onClose
Close ==
    /\ submitted = NotCalled
    /\ isOpen
    /\ isOpen' = FALSE
    /\ UNCHANGED <<meal, mealFoodsRef, selectedFoodId, formValues, submitted>>
    /\ UNCHANGED mealVars
    /\ UNCHANGED servingVars
    /\ UNCHANGED dialogVars
    /\ UNCHANGED adminVars

\* the useQuery delivers a snapshot: foods is another array, the nutrition effect runs
FoodsLoaded(docs) ==
    /\ submitted = NotCalled
    /\ foods' = foodsFromDocs(docs)
    /\ formValues' = nutritionEffect(mealFoods, foods', formValues)
    /\ EffectCalls(mealFoods, foods')
    /\ UNCHANGED <<mealFoods, isOpen, meal, mealFoodsRef, selectedFoodId, submitted>>
    /\ UNCHANGED servingVars
    /\ UNCHANGED dialogVars
    /\ UNCHANGED adminVars

\* a click on a row of filteredFoods
SelectFood(foodId) ==
    /\ submitted = NotCalled
    /\ isOpen
    /\ \E j \in 1..Len(foods) : foods[j].id = foodId
    /\ selectedFoodId' = foodId
    /\ UNCHANGED <<isOpen, meal, mealFoodsRef, formValues, submitted>>
    /\ UNCHANGED mealVars
    /\ UNCHANGED servingVars
    /\ UNCHANGED dialogVars
    /\ UNCHANGED adminVars

\* addFoodToMeal with newFoodPortion = text and newAllowedPortions = allowedText, then
\* the nutrition effect
AddFoodToMeal(text, allowedText) ==
    /\ submitted = NotCalled
    /\ isOpen
    /\ selectedFoodId # "" /\ text # <<>>
    /\ Len(mealFoods) < MaxFormFoods
    /\ LET newFood == [foodId |-> selectedFoodId, basePortion |-> parseFloat(text),
                       role |-> "protein_primary",
                       allowedPortions |-> portionsOrUndefined(parsePortions(allowedText))]
           updatedFoods == Append(mealFoods, newFood)
       IN  /\ mealFoods' = updatedFoods
           /\ formValues' = nutritionEffect(updatedFoods, foods, formValues)
           /\ EffectCalls(updatedFoods, foods)
    /\ mealFoodsRef' = "new"
    /\ selectedFoodId' = ""
    /\ UNCHANGED <<foods, isOpen, meal, submitted>>
    /\ UNCHANGED servingVars
    /\ UNCHANGED dialogVars
    /\ UNCHANGED adminVars

\* removeFoodFromMeal(index - 1), then the nutrition effect
RemoveFoodFromMeal(index) ==
    /\ submitted = NotCalled
    /\ isOpen
    /\ index \in 1..Len(mealFoods)
    /\ LET updatedFoods == [i \in 1..(Len(mealFoods) - 1) |->
                               IF i < index THEN mealFoods[i] ELSE mealFoods[i + 1]]
       IN  /\ mealFoods' = updatedFoods
           /\ formValues' = nutritionEffect(updatedFoods, foods, formValues)
           /\ EffectCalls(updatedFoods, foods)
    /\ mealFoodsRef' = "new"
    /\ UNCHANGED <<foods, isOpen, meal, selectedFoodId, submitted>>
    /\ UNCHANGED servingVars
    /\ UNCHANGED dialogVars
    /\ UNCHANGED adminVars

\* the mealType the form holds: form.reset puts it there and nothing else writes it
formMealType(m) == IF m # Null THEN m.mealType ELSE <<"breakfast">>

\* zodResolver(formSchema) accepts the form's values: mealType has an element and the
\* four base fields are numbers >= 0 (the fields not modelled hold valid values)
formValidates ==
    /\ Len(formMealType(meal)) >= 1
    /\ \A field \in DOMAIN formValues :
          IsNum(formValues[field]) /\ formValues[field].v >= 0

\* toggleMealType(mealType)
ToggleMealType(mealType) ==
    /\ submitted = NotCalled
    /\ isOpen
    /\ selectedMealTypes' =
          IF \E i \in 1..Len(selectedMealTypes) : selectedMealTypes[i] = mealType
          THEN SelectSeq(selectedMealTypes, LAMBDA mt : mt # mealType)
          ELSE Append(selectedMealTypes, mealType)
    /\ UNCHANGED <<editingPortions, editingStartedOn>>
    /\ UNCHANGED formVars
    /\ UNCHANGED mealVars
    /\ UNCHANGED servingVars
    /\ UNCHANGED adminVars

\* obj without key k
Without(obj, k) == [i \in (DOMAIN obj) \ {k} |-> obj[i]]

\* { ...obj, [k]: value }
With(obj, k, value) == [i \in (DOMAIN obj) \cup {k} |-> IF i = k THEN value ELSE obj[i]]

\* startEditingPortions(index - 1): the pencil of a row that shows no editor
StartEditingPortions(index) ==
    /\ submitted = NotCalled
    /\ isOpen
    /\ index \in 1..Len(mealFoods)
    /\ index \notin DOMAIN editingPortions
    /\ LET currentPortions == IF Truthy(mealFoods[index].allowedPortions)
                              THEN mealFoods[index].allowedPortions.v ELSE <<>>
       IN  editingPortions' = With(editingPortions, index, join(currentPortions))
    /\ editingStartedOn' = With(editingStartedOn, index, mealFoods[index])
    /\ UNCHANGED selectedMealTypes
    /\ UNCHANGED formVars
    /\ UNCHANGED mealVars
    /\ UNCHANGED servingVars
    /\ UNCHANGED adminVars

\* onChange of the editor shown in row index - 1
TypeEditedPortions(index, text) ==
    /\ submitted = NotCalled
    /\ isOpen
    /\ index \in 1..Len(mealFoods)
    /\ index \in DOMAIN editingPortions
    /\ editingPortions' = With(editingPortions, index, text)
    /\ UNCHANGED <<selectedMealTypes, editingStartedOn>>
    /\ UNCHANGED formVars
    /\ UNCHANGED mealVars
    /\ UNCHANGED servingVars
    /\ UNCHANGED adminVars

\* saveEditedPortions(index - 1): the check mark of the editor shown in that row, then
\* the nutrition effect
SaveEditedPortions(index) ==
    /\ submitted = NotCalled
    /\ isOpen
    /\ index \in 1..Len(mealFoods)
    /\ index \in DOMAIN editingPortions
    /\ LET allowedPortions == parsePortions(editingPortions[index])
           updatedFoods ==
               [mealFoods EXCEPT ![index] =
                   [@ EXCEPT !.allowedPortions = portionsOrUndefined(allowedPortions)]]
       IN  /\ mealFoods' = updatedFoods
           /\ formValues' = nutritionEffect(updatedFoods, foods, formValues)
           /\ EffectCalls(updatedFoods, foods)
    /\ mealFoodsRef' = "new"
    /\ editingPortions' = Without(editingPortions, index)
    /\ editingStartedOn' = Without(editingStartedOn, index)
    /\ UNCHANGED <<foods, isOpen, meal, selectedFoodId, submitted, selectedMealTypes>>
    /\ UNCHANGED servingVars
    /\ UNCHANGED adminVars

\* cancelEditingPortions(index - 1)
CancelEditingPortions(index) ==
    /\ submitted = NotCalled
    /\ isOpen
    /\ index \in 1..Len(mealFoods)
    /\ index \in DOMAIN editingPortions
    /\ editingPortions' = Without(editingPortions, index)
    /\ editingStartedOn' = Without(editingStartedOn, index)
    /\ UNCHANGED selectedMealTypes
    /\ UNCHANGED formVars
    /\ UNCHANGED mealVars
    /\ UNCHANGED servingVars
    /\ UNCHANGED adminVars

\* handleSubmit(data) up to its call of onSubmit: data holds the form's values, foods
\* is replaced by mealFoods
HandleSubmit ==
    /\ submitted = NotCalled
    /\ isOpen
    /\ formValidates
    /\ submitted' = [foods |-> mealFoods,
                     mealType |-> selectedMealTypes,
                     baseCalories |-> formValues.calories,
                     baseProtein |-> formValues.protein,
                     baseCarbs |-> formValues.carbs,
                     baseFat |-> formValues.fat]
    /\ UNCHANGED <<isOpen, meal, mealFoodsRef, selectedFoodId, formValues>>
    /\ UNCHANGED mealVars
    /\ UNCHANGED servingVars
    /\ UNCHANGED dialogVars
    /\ UNCHANGED adminVars

\* the parent's onSubmit returns, and handleSubmit with it
OnSubmitReturns ==
    /\ submitted # NotCalled
    /\ submitted' = NotCalled
    /\ UNCHANGED <<isOpen, meal, mealFoodsRef, selectedFoodId, formValues>>
    /\ UNCHANGED mealVars
    /\ UNCHANGED servingVars
    /\ UNCHANGED dialogVars
    /\ UNCHANGED adminVars

FormInit ==
    /\ foods = <<>>
    /\ mealFoods = <<>>
    /\ baseNutrition = NotCalled
    /\ contributions = <<>>
    /\ FormNotMounted
    /\ OthersIdle
    /\ food = [name |-> <<>>, foodType |-> "solid",
               nutritionPer100 |-> CaloriesOnlyNutrition, customConversions |-> Undefined]
    /\ servingSize = 0
    /\ servingUnit = "g"
    /\ gramsOrMl = 0
    /\ serving = NotCalled

FormNext ==
    \/ \E m \in Meals \cup {Null} : Open(m)
    \/ Close
    \/ \E docs \in FoodCollections : FoodsLoaded(docs)
    \/ \E foodId \in FoodIds : SelectFood(foodId)
    \/ \E text \in PortionTexts : AddFoodToMeal(text, <<>>)
    \/ \E index \in 1..MaxFormFoods : RemoveFoodFromMeal(index)
    \/ HandleSubmit
    \/ OnSubmitReturns

FormSpec == FormInit /\ [][FormNext]_vars

----------------------------------------------------------------------------
(* The dialog's meal type badges *)

MealTypeOptions == {"breakfast", "lunch", "dinner", "snack"}

TypesNext ==
    \/ \E m \in Meals \cup {Null} : Open(m)
    \/ Close
    \/ \E mealType \in MealTypeOptions : ToggleMealType(mealType)
    \/ HandleSubmit
    \/ OnSubmitReturns

TypesSpec == FormInit /\ [][TypesNext]_vars

----------------------------------------------------------------------------
(* The dialog's food rows: portions typed, rows added, removed and edited *)

\* the foods were loaded before the dialog is used
PortionsInit ==
    /\ foods = foodsFromDocs(<<DocRice, DocZero>>)
    /\ mealFoods = <<>>
    /\ baseNutrition = NotCalled
    /\ contributions = <<>>
    /\ FormNotMounted
    /\ OthersIdle
    /\ food = [name |-> <<>>, foodType |-> "solid",
               nutritionPer100 |-> CaloriesOnlyNutrition, customConversions |-> Undefined]
    /\ servingSize = 0
    /\ servingUnit = "g"
    /\ gramsOrMl = 0
    /\ serving = NotCalled

\* texts a number input hands over
TypedPortions == {<<"5", "0">>, <<"0">>, <<"-", "5">>}

\* texts of the allowed-portions inputs
TypedAllowedPortions == {<<>>, <<"5", "0", ",", " ", "x", ",", "-", "5", ",", "0">>}

PortionsNext ==
    \/ Open(Null)
    \/ \E foodId \in {"f1", "f2"} : SelectFood(foodId)
    \/ \E text \in TypedPortions, allowedText \in TypedAllowedPortions :
          AddFoodToMeal(text, allowedText)
    \/ \E index \in 1..MaxFormFoods : RemoveFoodFromMeal(index)
    \/ HandleSubmit
    \/ OnSubmitReturns

PortionsSpec == PortionsInit /\ [][PortionsNext]_vars

----------------------------------------------------------------------------
(* The dialog's row editors of allowed portions *)

\* the text typed into a row's editor
TypedEdit == <<"7", "5">>

EditingNext ==
    \/ Open(SavedMeal("m1", <<Entry("f1", 100), Entry("f2", 50)>>))
    \/ SelectFood("f1")
    \/ AddFoodToMeal(<<"3", "3">>, <<>>)
    \/ \E index \in 1..MaxFormFoods : RemoveFoodFromMeal(index)
    \/ \E index \in 1..MaxFormFoods : StartEditingPortions(index)
    \/ \E index \in 1..MaxFormFoods : TypeEditedPortions(index, TypedEdit)
    \/ \E index \in 1..MaxFormFoods : SaveEditedPortions(index)
    \/ \E index \in 1..MaxFormFoods : CancelEditingPortions(index)
    \/ HandleSubmit
    \/ OnSubmitReturns

EditingSpec == PortionsInit /\ [][EditingNext]_vars

----------------------------------------------------------------------------
(* A caller that holds food objects and calls the two functions again and again *)

HeapObjects ==
    [a |-> [name |-> <<"R","i","c","e">>, foodType |-> "solid",
            nutritionPer100 |-> RiceNutrition,
            customConversions |-> Obj([piece |-> Num(60), tbsp |-> Num(14)])],
     b |-> [name |-> <<"M","i","l","k">>, foodType |-> "liquid",
            nutritionPer100 |-> ZeroFieldsNutrition,
            customConversions |-> Undefined]]

CallSizes == {1, 2}
CallUnits == {"cup", "piece"}
CallMealFoods == {<<Entry("f1", 100), Entry("f2", 50)>>, <<Entry("f3", 33), Entry("f9", 100)>>}

\* calculateNutritionForServing writing its merged conversions into the food
foodAfterCallMerging(f, size, unit) ==
    [f EXCEPT !.customConversions = Obj(conversions(f))]

\* the food object after calculateNutritionForServing(food, size, unit): the function
\* reads food and assigns to none of its properties
foodAfterCall(f, size, unit) == f

\* the snapshot after calculateBaseNutrition(): find and forEach assign nothing
foodsAfterCall(mfs, fs) == fs

CallsInit ==
    /\ heap = HeapObjects
    /\ callLog = {}
    /\ foods = foodsFromDocs(<<DocRice, DocZero, DocFull>>)
    /\ mealFoods = <<>>
    /\ baseNutrition = NotCalled
    /\ contributions = <<>>
    /\ FormNotMounted
    /\ RecordsIdle
    /\ food = [name |-> <<>>, foodType |-> "solid",
               nutritionPer100 |-> CaloriesOnlyNutrition, customConversions |-> Undefined]
    /\ servingSize = 0
    /\ servingUnit = "g"
    /\ gramsOrMl = 0
    /\ serving = NotCalled

\* one more call of calculateNutritionForServing on a food object of the heap
CallServingAgain(o, size, unit) ==
    /\ food' = heap[o]
    /\ servingSize' = size
    /\ servingUnit' = unit
    /\ gramsOrMl' = resolveGramsOrMl(heap[o], size, unit)
    /\ serving' = calculateNutritionForServing(heap[o], size, unit)
    /\ heap' = [heap EXCEPT ![o] = foodAfterCall(heap[o], size, unit)]
    /\ callLog' = callLog \cup
          {[fn |-> "calculateNutritionForServing",
            args |-> <<heap[o], size, unit>>,
            result |-> calculateNutritionForServing(heap[o], size, unit)]}
    /\ UNCHANGED mealVars
    /\ UNCHANGED formVars
    /\ UNCHANGED dialogVars
    /\ UNCHANGED recordVars

\* one more call of calculateBaseNutrition on a composed list
CallAggregateAgain(mfs) ==
    /\ mealFoods' = mfs
    /\ baseNutrition' = calculateBaseNutrition(mfs, foods)
    /\ contributions' = perFoodContributions(mfs, foods)
    /\ foods' = foodsAfterCall(mfs, foods)
    /\ callLog' = callLog \cup
          {[fn |-> "calculateBaseNutrition",
            args |-> <<mfs, foods>>,
            result |-> calculateBaseNutrition(mfs, foods)]}
    /\ UNCHANGED heap
    /\ UNCHANGED servingVars
    /\ UNCHANGED formVars
    /\ UNCHANGED dialogVars
    /\ UNCHANGED recordVars

CallsNext ==
    \/ \E o \in DOMAIN HeapObjects, size \in CallSizes, unit \in CallUnits :
          CallServingAgain(o, size, unit)
    \/ \E mfs \in CallMealFoods : CallAggregateAgain(mfs)

CallsSpec == CallsInit /\ [][CallsNext]_vars

----------------------------------------------------------------------------
(* Food and meal records: MemStorage and the Firestore collections *)

MaxStored == 2   \* createFood calls on one MemStorage
MaxStoredMeals == 1  \* createMeal calls on one MemStorage
MaxDocs == 2     \* addDoc calls on one collection
MaxClock == 1    \* the instants after the first that new Date() can read

\* everything the serving functions and the meal dialog own
clientVars == <<servingVars, mealVars, formVars, dialogVars, callVars>>

FoodPrefix == <<"f", "o", "o", "d", "_">>
MealPrefix == <<"m", "e", "a", "l", "_">>

\* `food_${n}`, `meal_${n}`
templateId(prefix, n) == prefix \o numberToText(n)

\* an id that does not follow the counter
foodIdOfFirst(n) == templateId(FoodPrefix, 1)

\* the id createFood gives the record while currentFoodId is n
foodIdFor(n) == templateId(FoodPrefix, n)

\* the id createMeal gives the record while currentMealId is n
mealIdFor(n) == templateId(MealPrefix, n)

Rice == <<"R", "i", "c", "e">>
Oats == <<"O", "a", "t", "s">>

\* the InsertFood values passed in (the fields no operation reads are left out)
InsertFoods == {[name |-> Rice]}

\* the Partial<InsertFood> values passed in
FoodUpdates == {[name |-> Oats], EmptyObject}

\* the InsertMeal values passed in: a meal of the first food each store creates
InsertMeals(foodId) == {[foods |-> <<[foodId |-> foodId]>>]}

\* the Partial<InsertMeal> values passed in
MealUpdates == {[foods |-> <<>>]}

\* the ids passed in: every id a store can have assigned, and one it never assigned
MemFoodIds == {foodIdFor(n) : n \in 1..(MaxStored + 1)}
MemMealIds == {mealIdFor(n) : n \in 1..(MaxStoredMeals + 1)}

\* a call returned
Returned == [t |-> "returned"]

\* throw new Error(`Food with id ${id} not found`), `Meal with id ${id} not found`
NotFound(kind) == [t |-> "error", kind |-> kind]

\* time passes
Tick ==
    /\ now < MaxClock
    /\ now' = now + 1
    /\ UNCHANGED <<storageVars, firestoreVars, managerVars>>
    /\ UNCHANGED clientVars

\* MemStorage.createFood(insertFood)
CreateFood(insertFood) ==
    /\ currentFoodId <= MaxStored
    /\ LET id == foodIdFor(currentFoodId)
           newFood == Spread(insertFood, [id |-> id, createdAt |-> now, updatedAt |-> now])
       IN  /\ memFoods' = With(memFoods, id, newFood)
           /\ memResult' = Returned
           /\ memIssued' = Append(memIssued, newFood.id)
    /\ currentFoodId' = currentFoodId + 1
    /\ UNCHANGED <<memMeals, currentMealId>>
    /\ UNCHANGED <<now, firestoreVars, managerVars>>
    /\ UNCHANGED clientVars

\* an update that stamps createdAt as well
updatedRecordRestamped(existing, update, instant) ==
    Spread(Spread(existing, update), [createdAt |-> instant, updatedAt |-> instant])

\* what updateFood stores for an existing food
updatedRecord(existing, update, instant) ==
    Spread(Spread(existing, update), [updatedAt |-> instant])

\* MemStorage.updateFood(id, updateFood)
UpdateFood(id, updateFood) ==
    /\ IF id \notin DOMAIN memFoods
       THEN /\ memResult' = NotFound("Food")
            /\ UNCHANGED memFoods
       ELSE /\ memFoods' = With(memFoods, id, updatedRecord(memFoods[id], updateFood, now))
            /\ memResult' = Returned
    /\ UNCHANGED <<memMeals, currentFoodId, currentMealId, memIssued>>
    /\ UNCHANGED <<now, firestoreVars, managerVars>>
    /\ UNCHANGED clientVars

\* a delete that cascades to the meals holding the food
mealsAfterDeleteFoodCascading(meals, id) ==
    [m \in {k \in DOMAIN meals :
               \A i \in 1..Len(meals[k].foods) : meals[k].foods[i].foodId # id}
        |-> meals[m]]

\* the Map meals after deleteFood(id)
mealsAfterDeleteFood(meals, id) == meals

\* MemStorage.deleteFood(id)
DeleteFood(id) ==
    /\ memFoods' = Without(memFoods, id)
    /\ memMeals' = mealsAfterDeleteFood(memMeals, id)
    /\ memResult' = Returned
    /\ UNCHANGED <<currentFoodId, currentMealId, memIssued>>
    /\ UNCHANGED <<now, firestoreVars, managerVars>>
    /\ UNCHANGED clientVars

\* MemStorage.createMeal(insertMeal)
CreateMeal(insertMeal) ==
    /\ currentMealId <= MaxStoredMeals
    /\ LET id == mealIdFor(currentMealId)
           newMeal == Spread(insertMeal, [id |-> id, createdAt |-> now, updatedAt |-> now])
       IN  /\ memMeals' = With(memMeals, id, newMeal)
           /\ memResult' = Returned
           /\ memIssued' = Append(memIssued, newMeal.id)
    /\ currentMealId' = currentMealId + 1
    /\ UNCHANGED <<memFoods, currentFoodId>>
    /\ UNCHANGED <<now, firestoreVars, managerVars>>
    /\ UNCHANGED clientVars

\* MemStorage.updateMeal(id, updateMeal)
UpdateMeal(id, updateMeal) ==
    /\ IF id \notin DOMAIN memMeals
       THEN /\ memResult' = NotFound("Meal")
            /\ UNCHANGED memMeals
       ELSE /\ memMeals' = With(memMeals, id, updatedRecord(memMeals[id], updateMeal, now))
            /\ memResult' = Returned
    /\ UNCHANGED <<memFoods, currentFoodId, currentMealId, memIssued>>
    /\ UNCHANGED <<now, firestoreVars, managerVars>>
    /\ UNCHANGED clientVars

\* MemStorage.deleteMeal(id)
DeleteMeal(id) ==
    /\ memMeals' = Without(memMeals, id)
    /\ memResult' = Returned
    /\ UNCHANGED <<memFoods, currentFoodId, currentMealId, memIssued>>
    /\ UNCHANGED <<now, firestoreVars, managerVars>>
    /\ UNCHANGED clientVars

\* the document id addDoc generates for the n-th document of a collection: one no
\* document of the collection had before
autoId(n) == <<"d">> \o numberToText(n)

\* the ids the foods manager can pass on: every id addDoc can have generated, and the
\* id "" of a duplicate
DocIds == {autoId(n) : n \in 1..MaxDocs} \cup {<<>>}

\* the mutation run last: its name and status
Mutation(name, status) == [name |-> name, status |-> status]

\* addFoodMutation.mutate(newFood): mutationFn, then onSuccess
AddFoodMutation(newFood) ==
    /\ issuedDocs < MaxDocs
    /\ foodDocs' = With(foodDocs, autoId(issuedDocs + 1),
                        Spread(newFood, [createdAt |-> now, updatedAt |-> now]))
    /\ issuedDocs' = issuedDocs + 1
    /\ isAddModalOpen' = FALSE
    /\ lastMutation' = Mutation("addFoodMutation", "success")
    /\ UNCHANGED <<loadedFoods, selectedFoods, currentPage, pageSize, searchTerm,
                   editingFood, deletingFood>>
    /\ UNCHANGED mealDocs
    /\ UNCHANGED <<storageVars, now>>
    /\ UNCHANGED clientVars

\* updateFoodMutation.mutate({ id, data }): mutationFn, then onSuccess or onError;
\* updateDoc rejects when the collection holds no document with that id
UpdateFoodMutation(id, data) ==
    /\ IF id \in DOMAIN foodDocs
       THEN /\ foodDocs' = With(foodDocs, id,
                                Spread(foodDocs[id], Spread(data, [updatedAt |-> now])))
            /\ editingFood' = Null
            /\ lastMutation' = Mutation("updateFoodMutation", "success")
       ELSE /\ lastMutation' = Mutation("updateFoodMutation", "error")
            /\ UNCHANGED <<foodDocs, editingFood>>
    /\ UNCHANGED <<loadedFoods, selectedFoods, currentPage, pageSize, searchTerm,
                   deletingFood, isAddModalOpen>>
    /\ UNCHANGED <<mealDocs, issuedDocs>>
    /\ UNCHANGED <<storageVars, now>>
    /\ UNCHANGED clientVars

\* the collection meals after the documents ids of the collection foods were deleted
mealDocsAfterDelete(meals, ids) == meals

\* deleteFoodMutation.mutate(id): mutationFn, then onSuccess
DeleteFoodMutation(id) ==
    /\ foodDocs' = Without(foodDocs, id)
    /\ mealDocs' = mealDocsAfterDelete(mealDocs, {id})
    /\ deletingFood' = Null
    /\ lastMutation' = Mutation("deleteFoodMutation", "success")
    /\ UNCHANGED <<loadedFoods, selectedFoods, currentPage, pageSize, searchTerm,
                   editingFood, isAddModalOpen>>
    /\ UNCHANGED issuedDocs
    /\ UNCHANGED <<storageVars, now>>
    /\ UNCHANGED clientVars

\* bulkDeleteMutation.mutate(ids): mutationFn, then onSuccess
BulkDeleteMutation(ids) ==
    /\ foodDocs' = [id \in (DOMAIN foodDocs) \ ids |-> foodDocs[id]]
    /\ mealDocs' = mealDocsAfterDelete(mealDocs, ids)
    /\ selectedFoods' = {}
    /\ lastMutation' = Mutation("bulkDeleteMutation", "success")
    /\ UNCHANGED <<loadedFoods, currentPage, pageSize, searchTerm,
                   editingFood, deletingFood, isAddModalOpen>>
    /\ UNCHANGED issuedDocs
    /\ UNCHANGED <<storageVars, now>>
    /\ UNCHANGED clientVars

\* the document id addDoc generates for the n-th meal
autoMealId(n) == <<"m">> \o numberToText(n)

\* addMealMutation.mutate(newMeal) of the meals manager: mutationFn, then onSuccess
AddMealMutation(newMeal) ==
    /\ DOMAIN mealDocs = {}
    /\ mealDocs' = With(mealDocs, autoMealId(1),
                        Spread(newMeal, [createdAt |-> now, updatedAt |-> now]))
    /\ isOpen' = FALSE
    /\ meal' = Null
    /\ UNCHANGED <<mealFoodsRef, selectedFoodId, formValues, submitted>>
    /\ UNCHANGED <<foodDocs, issuedDocs>>
    /\ UNCHANGED <<storageVars, now, managerVars>>
    /\ UNCHANGED <<servingVars, mealVars, dialogVars, callVars>>

RecordsInit ==
    /\ RecordsIdle
    /\ CallsIdle
    /\ FormNotMounted
    /\ foods = <<>>
    /\ mealFoods = <<>>
    /\ baseNutrition = NotCalled
    /\ contributions = <<>>
    /\ food = [name |-> <<>>, foodType |-> "solid",
               nutritionPer100 |-> CaloriesOnlyNutrition, customConversions |-> Undefined]
    /\ servingSize = 0
    /\ servingUnit = "g"
    /\ gramsOrMl = 0
    /\ serving = NotCalled

\* no MemStorage method was called
StorageUntouched == StorageConstructed

\* no mutation was run
FirestoreUntouched == FirestoreEmpty /\ lastMutation = NotCalled

\* a step of the server's MemStorage
StorageNext ==
    \/ \E insertFood \in InsertFoods : CreateFood(insertFood)
    \/ \E id \in MemFoodIds, updateFood \in FoodUpdates : UpdateFood(id, updateFood)
    \/ \E id \in MemFoodIds : DeleteFood(id)
    \/ \E insertMeal \in InsertMeals(foodIdFor(1)) : CreateMeal(insertMeal)
    \/ \E id \in MemMealIds, updateMeal \in MealUpdates : UpdateMeal(id, updateMeal)
    \/ \E id \in MemMealIds : DeleteMeal(id)

\* a mutation of the client's managers
MutationsNext ==
    \/ \E newFood \in InsertFoods : AddFoodMutation(newFood)
    \/ \E id \in DocIds, data \in FoodUpdates : UpdateFoodMutation(id, data)
    \/ \E id \in DocIds : DeleteFoodMutation(id)
    \/ \E ids \in SUBSET {autoId(n) : n \in 1..MaxDocs} : BulkDeleteMutation(ids)
    \/ \E newMeal \in InsertMeals(autoId(1)) : AddMealMutation(newMeal)

\* the two stores share nothing but the clock, so a behaviour that uses both is a
\* shuffle of a behaviour of each: they are exercised one at a time, here at one instant
RecordsNext ==
    \/ FirestoreUntouched /\ StorageNext
    \/ StorageUntouched /\ MutationsNext

RecordsSpec == RecordsInit /\ [][RecordsNext]_vars

\* the food records of the two stores while time passes; the operations on meals
\* leave the food records and the clock alone
StampsNext ==
    \/ Tick
    \/ /\ FirestoreUntouched
       /\ \/ \E insertFood \in InsertFoods : CreateFood(insertFood)
          \/ \E id \in MemFoodIds, updateFood \in FoodUpdates : UpdateFood(id, updateFood)
          \/ \E id \in MemFoodIds : DeleteFood(id)
    \/ /\ StorageUntouched
       /\ \/ \E newFood \in InsertFoods : AddFoodMutation(newFood)
          \/ \E id \in DocIds, data \in FoodUpdates : UpdateFoodMutation(id, data)
          \/ \E id \in DocIds : DeleteFoodMutation(id)

StampsSpec == RecordsInit /\ [][StampsNext]_vars

----------------------------------------------------------------------------
(* The foods manager: list, pages, selection, the food form and the delete dialog *)

\* the characters of the names used, in code point order
CharOrder == <<" ", "(", ")">> \o Digits \o UpperChars \o LowerChars

charRank(c) == CHOOSE i \in DOMAIN CharOrder : CharOrder[i] = c

\* a comes before b: the order of orderBy("name") and, on these names, of localeCompare
RECURSIVE textBefore(_, _)
textBefore(a, b) ==
    IF a = <<>> THEN b # <<>>
    ELSE IF b = <<>> THEN FALSE
    ELSE IF Head(a) = Head(b) THEN textBefore(Tail(a), Tail(b))
    ELSE charRank(Head(a)) < charRank(Head(b))

\* the documents of the collection in the order of the query: by name, then by id
RECURSIVE orderByName(_)
orderByName(collection) ==
    IF DOMAIN collection = {} THEN <<>>
    ELSE LET first == CHOOSE id \in DOMAIN collection :
                        \A other \in (DOMAIN collection) \ {id} :
                            \/ textBefore(collection[id].name, collection[other].name)
                            \/ /\ collection[id].name = collection[other].name
                               /\ textBefore(id, other)
         IN  <<Spread([id |-> first], collection[first])>>
                 \o orderByName(Without(collection, first))

\* Math.ceil(a / b) for b > 0
MathCeilDiv(a, b) == (a + b - 1) \div b

MathMin(a, b) == IF a < b THEN a ELSE b
MathMax(a, b) == IF a > b THEN a ELSE b

\* Array.prototype.slice(start, end)
slice(list, start, end) ==
    LET n == Len(list)
        from == IF start < 0 THEN MathMax(n + start, 0) ELSE MathMin(start, n)
        to == IF end < 0 THEN MathMax(n + end, 0) ELSE MathMin(end, n)
    IN  IF from >= to THEN <<>> ELSE SubSeq(list, from + 1, to)

\* filteredAndSortedFoods: the loaded foods whose name holds the search term; the list
\* arrives ordered by name and the sort by name, ascending, keeps it
filteredAndSortedFoods ==
    SelectSeq(loadedFoods,
              LAMBDA f : includes(toLowerCase(f.name), toLowerCase(searchTerm)))

totalPages == MathCeilDiv(Len(filteredAndSortedFoods), pageSize)

paginatedFoods ==
    slice(filteredAndSortedFoods, (currentPage - 1) * pageSize, currentPage * pageSize)

\* the rows of the table
Rows == {paginatedFoods[i] : i \in 1..Len(paginatedFoods)}

RiceCopy == Rice \o <<" ", "(", "C", "o", "p", "y", ")">>

\* what the search box receives: under 3 characters, so hasSearched stays false and
\* the listener keeps its query
SearchTerms == {<<>>, <<"r", "i">>, <<"y">>}

\* the page size options
PageSizes == {10, 25, 50, 100}

\* the listener's callback: the snapshot goes to the query cache
OnSnapshot ==
    /\ loadedFoods' = orderByName(foodDocs)
    /\ UNCHANGED <<selectedFoods, currentPage, pageSize, searchTerm,
                   editingFood, deletingFood, isAddModalOpen, lastMutation>>
    /\ UNCHANGED <<storageVars, now, firestoreVars>>
    /\ UNCHANGED clientVars

\* onChange of the search box
SetSearchTerm(text) ==
    /\ searchTerm' = text
    /\ UNCHANGED <<loadedFoods, selectedFoods, currentPage, pageSize,
                   editingFood, deletingFood, isAddModalOpen, lastMutation>>
    /\ UNCHANGED <<storageVars, now, firestoreVars>>
    /\ UNCHANGED clientVars

\* onValueChange of the page size select
SetPageSize(value) ==
    /\ pageSize' = value
    /\ UNCHANGED <<loadedFoods, selectedFoods, currentPage, searchTerm,
                   editingFood, deletingFood, isAddModalOpen, lastMutation>>
    /\ UNCHANGED <<storageVars, now, firestoreVars>>
    /\ UNCHANGED clientVars

\* onClick of Previous, disabled on page 1
PreviousPage ==
    /\ currentPage # 1
    /\ currentPage' = MathMax(1, currentPage - 1)
    /\ UNCHANGED <<loadedFoods, selectedFoods, pageSize, searchTerm,
                   editingFood, deletingFood, isAddModalOpen, lastMutation>>
    /\ UNCHANGED <<storageVars, now, firestoreVars>>
    /\ UNCHANGED clientVars

\* onClick of Next, disabled on the page whose number is totalPages
NextPage ==
    /\ currentPage # totalPages
    /\ currentPage' = MathMin(totalPages, currentPage + 1)
    /\ UNCHANGED <<loadedFoods, selectedFoods, pageSize, searchTerm,
                   editingFood, deletingFood, isAddModalOpen, lastMutation>>
    /\ UNCHANGED <<storageVars, now, firestoreVars>>
    /\ UNCHANGED clientVars

\* onClick of Add Food
ClickAddFood ==
    /\ isAddModalOpen' = TRUE
    /\ UNCHANGED <<loadedFoods, selectedFoods, currentPage, pageSize, searchTerm,
                   editingFood, deletingFood, lastMutation>>
    /\ UNCHANGED <<storageVars, now, firestoreVars>>
    /\ UNCHANGED clientVars

\* onEdit(food) of a row
OnEdit(row) ==
    /\ row \in Rows
    /\ editingFood' = Obj(row)
    /\ UNCHANGED <<loadedFoods, selectedFoods, currentPage, pageSize, searchTerm,
                   deletingFood, isAddModalOpen, lastMutation>>
    /\ UNCHANGED <<storageVars, now, firestoreVars>>
    /\ UNCHANGED clientVars

\* the object handleDuplicate builds from a row
duplicateOf(row) ==
    Spread([k \in (DOMAIN row) \ {"id", "createdAt", "updatedAt"} |-> row[k]],
           [name |-> row.name \o <<" ", "(", "C", "o", "p", "y", ")">>,
            id |-> <<>>, createdAt |-> now, updatedAt |-> now])

\* handleDuplicate(food) of a row
HandleDuplicate(row) ==
    /\ row \in Rows
    /\ editingFood' = Obj(duplicateOf(row))
    /\ UNCHANGED <<loadedFoods, selectedFoods, currentPage, pageSize, searchTerm,
                   deletingFood, isAddModalOpen, lastMutation>>
    /\ UNCHANGED <<storageVars, now, firestoreVars>>
    /\ UNCHANGED clientVars

\* the food form is shown
foodFormIsOpen == isAddModalOpen \/ Truthy(editingFood)

\* onClose of the food form
CloseFoodForm ==
    /\ foodFormIsOpen
    /\ isAddModalOpen' = FALSE
    /\ editingFood' = Null
    /\ UNCHANGED <<loadedFoods, selectedFoods, currentPage, pageSize, searchTerm,
                   deletingFood, lastMutation>>
    /\ UNCHANGED <<storageVars, now, firestoreVars>>
    /\ UNCHANGED clientVars

\* onSubmit(data) of the food form
SubmitFoodForm(data) ==
    /\ foodFormIsOpen
    /\ IF Truthy(editingFood)
       THEN UpdateFoodMutation(editingFood.v.id, data)
       ELSE AddFoodMutation(data)

\* onDelete(food) of a row
OnDelete(row) ==
    /\ row \in Rows
    /\ deletingFood' = Obj(row)
    /\ UNCHANGED <<loadedFoods, selectedFoods, currentPage, pageSize, searchTerm,
                   editingFood, isAddModalOpen, lastMutation>>
    /\ UNCHANGED <<storageVars, now, firestoreVars>>
    /\ UNCHANGED clientVars

\* onConfirm of the delete dialog
ConfirmDelete ==
    /\ Truthy(deletingFood)
    /\ DeleteFoodMutation(deletingFood.v.id)

\* handleSelectFood(foodId, checked) of a row
HandleSelectFood(foodId, checked) ==
    /\ \E row \in Rows : row.id = foodId
    /\ selectedFoods' = IF checked THEN selectedFoods \cup {foodId}
                        ELSE selectedFoods \ {foodId}
    /\ UNCHANGED <<loadedFoods, currentPage, pageSize, searchTerm,
                   editingFood, deletingFood, isAddModalOpen, lastMutation>>
    /\ UNCHANGED <<storageVars, now, firestoreVars>>
    /\ UNCHANGED clientVars

\* handleSelectAll(checked)
HandleSelectAll(checked) ==
    /\ selectedFoods' = IF checked THEN {row.id : row \in Rows} ELSE {}
    /\ UNCHANGED <<loadedFoods, currentPage, pageSize, searchTerm,
                   editingFood, deletingFood, isAddModalOpen, lastMutation>>
    /\ UNCHANGED <<storageVars, now, firestoreVars>>
    /\ UNCHANGED clientVars

\* onBulkDelete of the bar, visible while something is selected
OnBulkDelete ==
    /\ selectedFoods # {}
    /\ BulkDeleteMutation(selectedFoods)

\* the manager is mounted over a collection that holds one food, and the listener
\* has delivered its first snapshot (isLoading is false: the table and the page
\* buttons are rendered)
ManagerInit ==
    /\ StorageConstructed
    /\ now = 0
    /\ foodDocs = (autoId(1) :> [name |-> Rice, createdAt |-> 0, updatedAt |-> 0])
    /\ mealDocs = <<>>
    /\ issuedDocs = 1
    /\ loadedFoods = orderByName(foodDocs)
    /\ selectedFoods = {}
    /\ currentPage = 1
    /\ pageSize = 10
    /\ searchTerm = <<>>
    /\ editingFood = Null
    /\ deletingFood = Null
    /\ isAddModalOpen = FALSE
    /\ lastMutation = NotCalled
    /\ CallsIdle
    /\ FormNotMounted
    /\ foods = <<>>
    /\ mealFoods = <<>>
    /\ baseNutrition = NotCalled
    /\ contributions = <<>>
    /\ food = [name |-> <<>>, foodType |-> "solid",
               nutritionPer100 |-> CaloriesOnlyNutrition, customConversions |-> Undefined]
    /\ servingSize = 0
    /\ servingUnit = "g"
    /\ gramsOrMl = 0
    /\ serving = NotCalled

\* what the food form hands to onSubmit
FoodFormData == {[name |-> Rice], [name |-> RiceCopy]}

\* the food form: add, edit and duplicate
DuplicateNext ==
    \/ OnSnapshot
    \/ ClickAddFood
    \/ \E row \in Rows : OnEdit(row)
    \/ \E row \in Rows : HandleDuplicate(row)
    \/ CloseFoodForm
    \/ \E data \in FoodFormData : SubmitFoodForm(data)

DuplicateSpec == ManagerInit /\ [][DuplicateNext]_vars

\* the pages of the list
PagesNext ==
    \/ OnSnapshot
    \/ \E text \in SearchTerms : SetSearchTerm(text)
    \/ \E value \in PageSizes : SetPageSize(value)
    \/ PreviousPage
    \/ NextPage
    \/ ClickAddFood
    \/ \E data \in InsertFoods : SubmitFoodForm(data)
    \/ \E row \in Rows : OnDelete(row)
    \/ ConfirmDelete

PagesSpec == ManagerInit /\ [][PagesNext]_vars

\* the selection
SelectionNext ==
    \/ OnSnapshot
    \/ ClickAddFood
    \/ \E data \in InsertFoods : SubmitFoodForm(data)
    \/ \E row \in Rows, checked \in BOOLEAN : HandleSelectFood(row.id, checked)
    \/ \E checked \in BOOLEAN : HandleSelectAll(checked)
    \/ \E row \in Rows : OnDelete(row)
    \/ ConfirmDelete
    \/ OnBulkDelete

SelectionSpec == ManagerInit /\ [][SelectionNext]_vars

----------------------------------------------------------------------------
(* Vocabulary of the properties *)

Called == serving # NotCalled
Aggregated == baseNutrition # NotCalled

IsError(x) == "t" \in DOMAIN x /\ x.t = "error"

\* the food's own override for unit u, when it has one
HasCustom(f, u) ==
    /\ f.customConversions.t = "object"
    /\ u \in DOMAIN f.customConversions.v
    /\ IsNum(f.customConversions.v[u])
CustomValue(f, u) == f.customConversions.v[u].v

\* the keyword-table entry matched by the food's name has a number for unit u
HasKeywordValue(f, u) ==
    /\ detectFoodType(f.name) # Null
    /\ u \in {"cup", "plate", "piece"}
    /\ IsNum(foodSpecificEntry(detectFoodType(f.name).v)[u])
KeywordValue(f, u) == foodSpecificEntry(detectFoodType(f.name).v)[u].v

\* the generic default of section 4.1 of the specification
GenericDefault(f, u) ==
    CASE u = "cup" -> IF f.foodType = "liquid" THEN 240 ELSE 200
      [] u = "tbsp" -> IF f.foodType = "liquid" THEN 15 ELSE 12
      [] u = "tsp" -> IF f.foodType = "liquid" THEN 5 ELSE 4
      [] u = "plate" -> 200
      [] u = "fist" -> 80
      [] u = "piece" -> 50

\* value (hundredths) is the tenth nearest to num / den tenths, halves up
IsNearestTenth(value, num, den) ==
    /\ value % 10 = 0
    /\ 2 * num - den < 2 * den * (value \div 10)
    /\ 2 * den * (value \div 10) <= 2 * num + den

\* C1: a custom override set for a fuzzy unit decides the resolved amount:
\* servingSize x customConversions[unit], whatever the keyword table and defaults say
C1_OverridePrecedence ==
    (Called /\ servingUnit \in FuzzyUnits /\ HasCustom(food, servingUnit))
        => gramsOrMl = servingSize * CustomValue(food, servingUnit)

\* C1 happens: two cups of Rice with its own 180 g cup resolve to 360, not 2 x 185
C1_Witness ==
    /\ Called
    /\ servingUnit = "cup"
    /\ servingSize = 2
    /\ HasCustom(food, "cup")
    /\ HasKeywordValue(food, "cup")
    /\ KeywordValue(food, "cup") # CustomValue(food, "cup")
    /\ gramsOrMl = 360

\* C2: without a custom override, a numeric keyword-table value for the unit decides
\* the resolved amount: servingSize x that value, not the generic default
C2_KeywordPrecedence ==
    (/\ Called
     /\ servingUnit \in FuzzyUnits
     /\ ~HasCustom(food, servingUnit)
     /\ HasKeywordValue(food, servingUnit))
        => gramsOrMl = servingSize * KeywordValue(food, servingUnit)

\* C2 happens: three cups of a Rice without overrides resolve to 555, not to 600
C2_Witness ==
    /\ Called
    /\ servingUnit = "cup"
    /\ servingSize = 3
    /\ ~HasCustom(food, "cup")
    /\ HasKeywordValue(food, "cup")
    /\ KeywordValue(food, "cup") # GenericDefault(food, "cup")
    /\ gramsOrMl = 555

\* C3: without a custom override and without a keyword-table number for the unit, the
\* resolved amount is servingSize x the generic default of the unit and foodType
C3_TierThreeFallback ==
    (/\ Called
     /\ servingSize > 0
     /\ servingUnit \in FuzzyUnits
     /\ ~HasCustom(food, servingUnit)
     /\ ~HasKeywordValue(food, servingUnit))
        => gramsOrMl = servingSize * GenericDefault(food, servingUnit)

\* no tier has a value for the unit
NoTierYields(f, u) ==
    /\ ~(u \in FuzzyUnits /\ HasCustom(f, u))
    /\ ~HasKeywordValue(f, u)
    /\ u \notin UnitTokens

\* C4: a unit no tier has a value for makes the call fail with an error instead of
\* returning a nutrition record
C4_UnsupportedUnitFails ==
    (Called /\ servingSize > 0 /\ NoTierYields(food, servingUnit)) => IsError(serving)

\* C5: for a quantity q > 0, g and ml resolve to q and l to 1000 q, over a base of 100,
\* and the returned calories are those of the ratio q / 100 (1000 q / 100 for l)
C5_ExactUnits ==
    (Called /\ servingSize > 0 /\ servingUnit \in ExactUnits)
        => LET q == IF servingUnit = "l" THEN 1000 * servingSize ELSE servingSize
           IN  /\ gramsOrMl = q
               /\ baseAmount(food) = 100
               /\ serving["calories"] =
                     Num(100 * MathRound(food.nutritionPer100["calories"].v * q, 1000))

\* C5 happens: 150 g of a named food that has its own overrides
C5_Witness ==
    /\ Called
    /\ servingUnit = "g"
    /\ servingSize = 150
    /\ HasCustom(food, "cup")
    /\ detectFoodType(food.name) # Null
    /\ food.foodType = "liquid"
    /\ gramsOrMl = 150

\* C6: a serving quantity <= 0 makes the call fail with a validation error
C6_QuantityValidated ==
    (Called /\ servingSize <= 0) => IsError(serving)

\* C7: with a ratio >= 0, each of protein, carbs, fat, fiber, sugar and sodium that the
\* food has (a value of 0 included) is returned, as value x ratio to one decimal place
C7_PresencePreserved ==
    (Called /\ gramsOrMl >= 0)
        => \A k \in ServedNutrients :
              k \in DOMAIN food.nutritionPer100
                 => /\ IsNum(serving[k])
                    /\ IsNearestTenth(serving[k].v,
                                      food.nutritionPer100[k].v * gramsOrMl, baseAmount(food))

\* C8: an optional nutrient the food does not have is not in the result, at any ratio
C8_AbsencePreserved ==
    Called => \A k \in OptionalNutrients :
                 k \notin DOMAIN food.nutritionPer100 => Get(serving, k) = Undefined

\* C8 happens: a ratio of exactly 1 for a food that has protein but no sugar
C8_Witness ==
    /\ Called
    /\ gramsOrMl = baseAmount(food)
    /\ "sugar" \notin DOMAIN food.nutritionPer100
    /\ "protein" \in DOMAIN food.nutritionPer100
    /\ IsNum(serving["protein"])
    /\ serving["sugar"] = Undefined

\* C9: every optional nutrient the food has with a non-zero amount, the vitamins and
\* minerals included, is in the result
C9_SameShape ==
    (Called /\ servingSize > 0) => \A k \in OptionalNutrients :
                 (k \in DOMAIN food.nutritionPer100 /\ food.nutritionPer100[k].v # 0)
                    => IsNum(Get(serving, k))

\* every entry of the composed list names a food of the snapshot
AllResolve == \A i \in 1..Len(mealFoods) : \E j \in 1..Len(foods) : foods[j].id = mealFoods[i].foodId

\* the first food of the snapshot with the id of entry i
FoodOfEntry(i) ==
    foods[CHOOSE j \in 1..Len(foods) :
             /\ foods[j].id = mealFoods[i].foodId
             /\ \A h \in 1..(j - 1) : foods[h].id # mealFoods[i].foodId]

\* nutritionPer100.field of a food in tenths, 0 when the food lacks the field
PerHundredOrZero(f, field) ==
    IF field \in DOMAIN f.nutritionPer100 /\ IsNum(f.nutritionPer100[field])
    THEN f.nutritionPer100[field].v ELSE 0

\* the sum over entries 1..n of nutritionPer100.field x basePortion / 100, in thousandths
RECURSIVE ExactSum(_, _)
ExactSum(field, n) ==
    IF n = 0 THEN 0
    ELSE ExactSum(field, n - 1) + PerHundredOrZero(FoodOfEntry(n), field) * mealFoods[n].basePortion.v

BaseFields == {"calories", "protein", "carbs", "fat"}

\* C10 as stated: when every entry resolves, each base field equals the sum of
\* nutritionPer100.field x basePortion / 100 over the entries
C10_EqualsExactSum ==
    (Aggregated /\ AllResolve)
        => \A field \in BaseFields :
              10 * baseNutrition[field].v = ExactSum(field, Len(mealFoods))

\* C10 amended: when every entry resolves, each base field is that sum rounded to one
\* decimal place, a food lacking protein, carbs or fat contributing 0
C10_RoundedSum ==
    (Aggregated /\ AllResolve)
        => \A field \in BaseFields :
              /\ IsNum(baseNutrition[field])
              /\ IsNearestTenth(baseNutrition[field].v, ExactSum(field, Len(mealFoods)), 100)

\* C10 happens: 100 g of the 205 kcal food and 50 g of the 100 kcal food that has no
\* carbs give 255 kcal and the carbs of the first food alone
C10_Witness ==
    /\ Aggregated
    /\ AllResolve
    /\ Len(mealFoods) = 2
    /\ mealFoods[1].foodId = "f1" /\ mealFoods[1].basePortion = Num(100)
    /\ mealFoods[2].foodId = "f2" /\ mealFoods[2].basePortion = Num(50)
    /\ FoodOfEntry(2).nutritionPer100["carbs"] = Undefined
    /\ baseNutrition["calories"] = Num(25500)
    /\ baseNutrition["carbs"] = Num(4500)

\* value (hundredths) is a tenth at most half a tenth away from num / den tenths
IsATenthNearest(value, num, den) ==
    /\ value % 10 = 0
    /\ 2 * num - den <= 2 * den * (value \div 10)
    /\ 2 * den * (value \div 10) <= 2 * num + den

\* value (hundredths) is a whole number at most a half away from num / den
IsAWholeNearest(value, num, den) ==
    /\ value % 100 = 0
    /\ 2 * num - den <= 2 * den * (value \div 100)
    /\ 2 * den * (value \div 100) <= 2 * num + den

\* C11: the aggregated baseCalories is a whole number and baseProtein, baseCarbs and
\* baseFat have at most one decimal digit
C11_MealRounding ==
    Aggregated
        => /\ baseNutrition["calories"].v % 100 = 0
           /\ \A field \in BaseFields \ {"calories"} : baseNutrition[field].v % 10 = 0

Resolves(i) == \E j \in 1..Len(foods) : foods[j].id = mealFoods[i].foodId

\* what calculateNutritionForServing returns for entry i served as basePortion grams,
\* in hundredths, an absent field counting 0
SingleFoodScaled(i, field) ==
    LET r == calculateNutritionForServing(FoodOfEntry(i), mealFoods[i].basePortion.v, "g")[field]
    IN  IF IsNum(r) THEN r.v ELSE 0

RECURSIVE SumOfScaled(_, _)
SumOfScaled(field, n) ==
    IF n = 0 THEN 0 ELSE SumOfScaled(field, n - 1) + SingleFoodScaled(n, field)

RECURSIVE SumOfContributions(_, _)
SumOfContributions(field, n) ==
    IF n = 0 THEN 0 ELSE SumOfContributions(field, n - 1) + contributions[n][field]

\* C12 as stated: each food contributes what the single-food scaling rule returns for
\* ratio = basePortion / 100, and the meal total is the sum of these contributions
C12_PerFoodScalingRule ==
    (Aggregated /\ AllResolve)
        => \A field \in BaseFields :
              /\ \A i \in 1..Len(mealFoods) :
                    contributions[i][field] = 10 * SingleFoodScaled(i, field)
              /\ baseNutrition[field].v = SumOfScaled(field, Len(mealFoods))

\* C12 amended: each food contributes nutritionPer100.field x basePortion / 100 without
\* any rounding, and the meal total is the sum of these contributions rounded once, to
\* one decimal place
C12_UnroundedContributions ==
    Aggregated
        => \A field \in BaseFields :
              /\ \A i \in 1..Len(mealFoods) :
                    contributions[i][field] =
                        IF Resolves(i)
                        THEN PerHundredOrZero(FoodOfEntry(i), field) * mealFoods[i].basePortion.v
                        ELSE 0
              /\ IsATenthNearest(baseNutrition[field].v,
                                 SumOfContributions(field, Len(mealFoods)), 100)

\* C12 happens: three 33 g portions of the 4.3 g protein food contribute 1.419 g each
\* and total 4.3 g, where three contributions rounded one by one would total 4.2 g
C12_Witness ==
    /\ Aggregated
    /\ Len(mealFoods) = 3
    /\ \A i \in 1..3 : mealFoods[i].foodId = "f1" /\ mealFoods[i].basePortion = Num(33)
    /\ \A i \in 1..3 : contributions[i]["protein"] = 1419
    /\ baseNutrition["protein"] = Num(430)
    /\ SumOfScaled("protein", 3) = 420

\* the entries whose food is in the snapshot, in order
ResolvableEntries ==
    SelectSeq(mealFoods, LAMBDA e : \E j \in 1..Len(foods) : foods[j].id = e.foodId)

\* C14: an entry whose foodId matches no food of the snapshot does not make the call
\* fail; it contributes 0 to the four fields and the totals are those of the
\* resolvable entries alone
C14_MissingFoodSkipped ==
    Aggregated
        => /\ ~IsError(baseNutrition)
           /\ \A i \in 1..Len(mealFoods) :
                 ~Resolves(i)
                    => /\ ~contributions[i].found
                       /\ \A field \in BaseFields : contributions[i][field] = 0
           /\ \A field \in BaseFields :
                 /\ IsNum(baseNutrition[field])
                 /\ baseNutrition[field] = calculateBaseNutrition(ResolvableEntries, foods)[field]

\* C14 happens: a deleted food between two foods of the snapshot
C14_Witness ==
    /\ Aggregated
    /\ Len(mealFoods) = 3
    /\ Resolves(1) /\ ~Resolves(2) /\ Resolves(3)
    /\ mealFoods[1].foodId = "f1" /\ mealFoods[1].basePortion = Num(100)
    /\ mealFoods[3].foodId = "f2" /\ mealFoods[3].basePortion = Num(50)
    /\ baseNutrition["calories"] = Num(25500)

\* the food ids of the meal that are not in the snapshot
MissingFoodIds == {mealFoods[i].foodId : i \in {j \in 1..Len(mealFoods) : ~Resolves(j)}}

\* the ids a result carries besides its four totals
ReportedFoodIds(result) == UNION {result[k] : k \in (DOMAIN result) \ BaseFields}

\* C15: the result of the aggregation reports exactly the food ids that did not resolve
C15_MissingIdsReported ==
    Aggregated => ReportedFoodIds(baseNutrition) = MissingFoodIds

\* C16: the calories calculateNutritionForServing returns is the whole number nearest to
\* calories x ratio, and every other nutrient it returns is the tenth nearest to
\* value x ratio (ratio = gramsOrMl / baseAmount)
C16_RoundingLaw ==
    Called
        => /\ IsAWholeNearest(serving["calories"].v,
                              food.nutritionPer100["calories"].v * gramsOrMl,
                              10 * baseAmount(food))
           /\ \A n \in ServedNutrients :
                 IsNum(serving[n])
                    => IsATenthNearest(serving[n].v,
                                       food.nutritionPer100[n].v * gramsOrMl,
                                       baseAmount(food))

\* C16 happens: 185 g of the 205 kcal, 4.3 g protein food is 379.25 kcal and 7.955 g,
\* returned as 379 and 8.0
C16_Witness ==
    /\ Called
    /\ food.nutritionPer100 = RiceNutrition
    /\ gramsOrMl = 185
    /\ serving["calories"] = Num(37900)
    /\ serving["protein"] = Num(800)

\* C17: without a custom override and without a keyword match, a fuzzy unit resolves to
\* servingSize x the generic default: cup 240 / 200, tbsp 15 / 12, tsp 5 / 4 for a
\* liquid / a solid, plate 200, fist 80 and piece 50 for both
C17_GenericDefaults ==
    (/\ Called
     /\ servingUnit \in FuzzyUnits
     /\ ~HasCustom(food, servingUnit)
     /\ detectFoodType(food.name) = Null)
        => gramsOrMl = servingSize *
              (CASE servingUnit = "cup" -> IF food.foodType = "liquid" THEN 240 ELSE 200
                 [] servingUnit = "tbsp" -> IF food.foodType = "liquid" THEN 15 ELSE 12
                 [] servingUnit = "tsp" -> IF food.foodType = "liquid" THEN 5 ELSE 4
                 [] servingUnit = "plate" -> 200
                 [] servingUnit = "fist" -> 80
                 [] servingUnit = "piece" -> 50)

\* C17 happens: one tbsp of a solid without override or keyword resolves to 12
C17_Witness ==
    /\ Called
    /\ servingUnit = "tbsp"
    /\ servingSize = 1
    /\ food.foodType = "solid"
    /\ food.customConversions = Undefined
    /\ detectFoodType(food.name) = Null
    /\ gramsOrMl = 12

\* the positions of the table whose key is a substring of the lowercased name
MatchingRows(foodName) ==
    {i \in 1..Len(foodSpecificConversions) :
        \E k \in 0..Len(foodName) :
            /\ k + Len(foodSpecificConversions[i].key) <= Len(foodName)
            /\ \A c \in 1..Len(foodSpecificConversions[i].key) :
                  toLowerCaseChar(foodName[k + c]) = foodSpecificConversions[i].key[c]}

FirstMatchingRow(foodName) ==
    CHOOSE i \in MatchingRows(foodName) : \A j \in MatchingRows(foodName) : i <= j

\* C18: detectFoodType returns the first key of the table, in insertion order, that is
\* a substring of the lowercased name, and null when there is none; the resolver uses
\* the row of that key
C18_FirstMatch ==
    Called
        => /\ MatchingRows(food.name) = {} => detectFoodType(food.name) = Null
           /\ MatchingRows(food.name) # {}
                 => /\ detectFoodType(food.name) =
                          Str(foodSpecificConversions[FirstMatchingRow(food.name)].key)
                    /\ \A u \in {"cup", "plate", "piece"} :
                          (/\ servingUnit = u
                           /\ ~HasCustom(food, u)
                           /\ IsNum(foodSpecificConversions[FirstMatchingRow(food.name)][u]))
                              => gramsOrMl = servingSize *
                                    foodSpecificConversions[FirstMatchingRow(food.name)][u].v

\* C18 happens: "Chicken and rice" contains "rice" (row 1) and "chicken" (row 18); two
\* cups resolve through the rice row to 370
C18_Witness ==
    /\ Called
    /\ Cardinality(MatchingRows(food.name)) = 2
    /\ FirstMatchingRow(food.name) = 1
    /\ food.customConversions = Undefined
    /\ servingUnit = "cup"
    /\ servingSize = 2
    /\ gramsOrMl = 370

\* C19: for a solid food of 205 kcal, 4.3 g protein, 45 g carbs and 0.4 g fat per 100,
\* calculateNutritionForServing(food, 150, "g") returns 308, 6.5, 67.5 and 0.6
C19_ScenarioOne ==
    (/\ Called
     /\ food.foodType = "solid"
     /\ food.nutritionPer100 = RiceNutrition
     /\ servingSize = 150
     /\ servingUnit = "g")
        => /\ serving["calories"] = Num(30800)
           /\ serving["protein"] = Num(650)
           /\ serving["carbs"] = Num(6750)
           /\ serving["fat"] = Num(60)

\* C19 happens: the call of scenario 1 was made, with ratio 150 / 100
C19_Witness ==
    /\ Called
    /\ food.foodType = "solid"
    /\ food.nutritionPer100 = RiceNutrition
    /\ servingSize = 150
    /\ servingUnit = "g"
    /\ gramsOrMl = 150
    /\ serving["calories"] = Num(30800)

\* C20: the same food, named with "rice" and without a custom cup, served as 1 cup
\* resolves to 185 g and returns calories 379
C20_ScenarioTwo ==
    (/\ Called
     /\ food.foodType = "solid"
     /\ food.nutritionPer100 = RiceNutrition
     /\ includes(toLowerCase(food.name), <<"r", "i", "c", "e">>)
     /\ ~HasCustom(food, "cup")
     /\ servingSize = 1
     /\ servingUnit = "cup")
        => /\ gramsOrMl = 185
           /\ serving["calories"] = Num(37900)

\* C20 happens: one cup of "Rice" was served
C20_Witness ==
    /\ Called
    /\ food.name = <<"R", "i", "c", "e">>
    /\ food.foodType = "solid"
    /\ food.nutritionPer100 = RiceNutrition
    /\ food.customConversions = Undefined
    /\ servingSize = 1
    /\ servingUnit = "cup"
    /\ gramsOrMl = 185

\* the base fields of a payload are the aggregation of its foods over the snapshot
PayloadCurrent(payload, fs) ==
    LET n == calculateBaseNutrition(payload.foods, fs)
    IN  /\ payload.baseCalories = n.calories
        /\ payload.baseProtein = n.protein
        /\ payload.baseCarbs = n.carbs
        /\ payload.baseFat = n.fat

\* C13: once a food was added to or removed from the list, whatever was opened and
\* loaded before, the base fields handleSubmit passes to onSubmit are the aggregation
\* of the foods it passes with them over the snapshot held at that moment, never a
\* value stored or computed earlier
C13_DerivedCurrent ==
    (submitted # NotCalled /\ mealFoodsRef = "new")
        => PayloadCurrent(submitted, foods)

IsPositiveNumber(value) == IsNum(value) /\ value.v > 0

\* mealFoodSchema accepts the entry
SatisfiesMealFoodSchema(entry) ==
    /\ IsPositiveNumber(entry.basePortion)
    /\ \/ entry.allowedPortions = Undefined
       \/ /\ entry.allowedPortions.t = "array"
          /\ \A i \in 1..Len(entry.allowedPortions.v) :
                IsPositiveNumber(entry.allowedPortions.v[i])

\* C24: every meal handed to onSubmit carries at least one meal type: a submit while
\* no meal type is selected is stopped by validation
C24_MealTypeNonEmpty ==
    submitted # NotCalled => Len(submitted.mealType) >= 1

\* C25: every food entry handed to onSubmit satisfies mealFoodSchema, whatever was
\* typed into the portion inputs: basePortion is a number above 0 and so is every
\* allowed portion
C25_EntriesSatisfySchema ==
    submitted # NotCalled =>
        \A i \in 1..Len(submitted.foods) : SatisfiesMealFoodSchema(submitted.foods[i])

\* C26: under every interleaving of startEditingPortions, removeFoodFromMeal,
\* addFoodToMeal and saveEditedPortions, a save writes the allowed portions of the
\* entry the edit was started on
C26_EditReachesItsEntry ==
    [][\A index \in 1..MaxFormFoods :
          SaveEditedPortions(index) => mealFoods[index] = editingStartedOn[index]]_vars


\* the values of a stored collection
Stored(store) == {store[id] : id \in DOMAIN store}

\* the step created record id of the store at the instant the clock shows
CreatedNow(before, after, id) ==
    /\ id \notin DOMAIN before
    /\ after[id].createdAt = now
    /\ after[id].updatedAt = now

\* the step left record id of the store alone, or updated it at the instant the clock
\* shows and left its createdAt and its id alone
KeptOrUpdatedNow(before, after, id) ==
    /\ id \in DOMAIN before
    /\ \/ after[id] = before[id]
       \/ /\ after[id].updatedAt = now
          /\ after[id].createdAt = before[id].createdAt
          /\ ("id" \in DOMAIN before[id] => after[id].id = before[id].id)

\* the record holds the fields written last, and what that write did not name is as before
HoldsWrite(before, after, written) ==
    /\ \A k \in DOMAIN written : after[k] = written[k]
    /\ \A k \in (DOMAIN before) \ ((DOMAIN written) \cup {"updatedAt"}) : after[k] = before[k]

\* C22: a created food has createdAt = updatedAt = the instant of the create; an update
\* sets updatedAt to the instant of the update and leaves id and createdAt alone; so
\* updatedAt >= createdAt in every stored food, and the stored fields are those of the
\* last write (MemStorage and the Firestore collection, the clock never going back)
C22_FoodTimestamps ==
    [][/\ \A id \in DOMAIN memFoods' :
             /\ CreatedNow(memFoods, memFoods', id) \/ KeptOrUpdatedNow(memFoods, memFoods', id)
             /\ memFoods'[id].updatedAt >= memFoods'[id].createdAt
             /\ memFoods'[id].id = id
       /\ \A id \in DOMAIN foodDocs' :
             /\ CreatedNow(foodDocs, foodDocs', id) \/ KeptOrUpdatedNow(foodDocs, foodDocs', id)
             /\ foodDocs'[id].updatedAt >= foodDocs'[id].createdAt
       /\ \A id \in MemFoodIds, updateFood \in FoodUpdates :
             (UpdateFood(id, updateFood) /\ id \in DOMAIN memFoods)
                => HoldsWrite(memFoods[id], memFoods'[id], updateFood)
       /\ \A id \in DocIds, data \in FoodUpdates :
             (UpdateFoodMutation(id, data) /\ id \in DOMAIN foodDocs)
                => HoldsWrite(foodDocs[id], foodDocs'[id], data)]_vars

\* C22 happens: a stored food was renamed by an update later than its creation
C22_Witness ==
    \E id \in DOMAIN memFoods :
        /\ memFoods[id].name = Oats
        /\ memFoods[id].updatedAt > memFoods[id].createdAt

\* the step removed a record of the store
Removes(before, after) == \E id \in DOMAIN before : id \notin DOMAIN after

\* the step left every record the store still holds as it was
OthersKept(before, after) ==
    /\ DOMAIN after \subseteq DOMAIN before
    /\ \A id \in DOMAIN after : after[id] = before[id]

\* C23: a step that removes food records (deleteFood, the single and the bulk delete
\* mutation) changes no meal record and no other food record, whether or not a meal
\* holds the removed id
C23_NoCascade ==
    [][/\ Removes(memFoods, memFoods') =>
             (memMeals' = memMeals /\ OthersKept(memFoods, memFoods'))
       /\ Removes(foodDocs, foodDocs') =>
             (mealDocs' = mealDocs /\ OthersKept(foodDocs, foodDocs'))]_vars

\* C23 happens: a stored meal holds the id of a food that was created and deleted
C23_Witness ==
    \E m \in DOMAIN memMeals :
        /\ Len(memMeals[m].foods) = 1
        /\ memMeals[m].foods[1].foodId \notin DOMAIN memFoods
        /\ \E i \in 1..Len(memIssued) : memIssued[i] = memMeals[m].foods[1].foodId

\* no value occurs twice in the sequence
NoDuplicates(sequence) ==
    \A i \in 1..Len(sequence) : \A j \in 1..Len(sequence) :
        sequence[i] = sequence[j] => i = j

IsDuplicate(value) == Truthy(value) /\ value.v.id = <<>>

\* C27: a submit of the food form opened by Duplicate runs the create mutation, not
\* the update mutation, and when it succeeds the collection holds one more food, under
\* a new id, with the submitted name, and every food it held is unchanged
C27_DuplicateCreates ==
    [][\A data \in FoodFormData :
          (IsDuplicate(editingFood) /\ SubmitFoodForm(data)) =>
              /\ lastMutation'.name = "addFoodMutation"
              /\ lastMutation'.status = "success" =>
                    /\ \A id \in DOMAIN foodDocs :
                          id \in DOMAIN foodDocs' /\ foodDocs'[id] = foodDocs[id]
                    /\ \E id \in (DOMAIN foodDocs') \ (DOMAIN foodDocs) :
                          /\ foodDocs'[id].name = data.name
                          /\ (DOMAIN foodDocs') \ (DOMAIN foodDocs) = {id}]_vars

\* C28: currentPage stays within 1..max(1, totalPages) whatever is clicked, typed,
\* added or deleted
C28_PageInRange ==
    /\ 1 <= currentPage
    /\ currentPage <= MathMax(1, totalPages)

\* the ids of the foods the query cache holds
LoadedIds == {loadedFoods[i].id : i \in 1..Len(loadedFoods)}

\* the listener has delivered what the collection holds
ListRefreshed == loadedFoods = orderByName(foodDocs)

\* C29: once the list is refreshed, every selected id is the id of a loaded food: a
\* single delete removed the deleted id from the selection and a bulk delete emptied it
C29_SelectionExists ==
    ListRefreshed => selectedFoods \subseteq LoadedIds

====
